---- MODULE Spec2Model ----
(***************************************************************************)
(* A model of the Stickerei catalogue scripts:                             *)
(*   scraper/extract_prices_position.py  (index pairing of names/prices)   *)
(*   scraper/scrape_pdf_images.py        (image / text-block proximity)    *)
(*   search_price.py                     (case-insensitive lookup)         *)
(*   scraper/extract_product_info.py     (product text chunks and fields)  *)
(*                                                                         *)
(* A Python str is a sequence of one-character strings, so that the        *)
(* regular expressions, strip(), replace(), lower() and the `in' test are  *)
(* computed character by character, the way the interpreter does.          *)
(***************************************************************************)
EXTENDS Integers, Sequences, FiniteSets, TLC

VARIABLES
    pc,                \* position of the running script
    doc,               \* the opened document: its pages, in page order
    doc_open,          \* whether the document handle is open
    page_num,          \* number of pages the page loop has consumed
    product_data,      \* extract_product_data: the list being built
    products,          \* module level: the list extract_product_data returned
    product_idx,       \* module level: items the cleaning loop has consumed
    cleaned_products,  \* module level: the valid-record list
    csvfile,           \* the output file: its name, whether written, its rows
    reported_total,    \* the count the run printed at its end (-1: none yet)
    min_size,          \* extract_images_with_pattern: the min_size argument
    img_index,         \* images of the current page the image loop has consumed
    matching_text_found, \* outcome of the first block scan, last image handled
    extracted_data,    \* extract_images_with_pattern: rows for the CSV
    page_extracted,    \* images emitted for the current page
    total_extracted,   \* images emitted in the whole run
    query,             \* search_price.main: the stripped input line
    matches,           \* search_price.main: what find_price returned
    stdout,            \* search_price.main: the lines printed
    pattern,           \* extract_product_text_data: the pattern argument
    match_idx,         \* matches of the current page the match loop has consumed
    extracted_products, \* extract_product_text_data: records for the CSV
    page_products,     \* records emitted for the current page
    total_found,       \* records emitted in the whole run
    site,              \* the web site: what each page number answers
    start_page,        \* scrape_all_pages: the start_page argument
    max_pages,         \* scrape_all_pages: the max_pages argument (0: None or 0)
    consecutive_empty_pages, \* scrape_all_pages: empty pages in a row
    requests,          \* the page numbers requested from the site, in order
    current_url,       \* driver.current_url
    visited_urls,      \* handle_traditional_pagination: the URLs seen
    cur_page,          \* the pagination loop's counter `page'
    all_products,      \* the pagination loop's product list
    target_count,      \* self.target_count
    page_reads,        \* the URLs whose page source was read for products
    scroll_attempt,    \* infinite_scroll_current_page: scroll iterations made
    last_height,       \* infinite_scroll_current_page: the height last read
    last_product_count, \* infinite_scroll_current_page: the count kept
    stable_iterations, \* infinite_scroll_current_page: iterations without growth
    driver,            \* self.driver: "none", "open" or "quit"
    fault,             \* run: the step of this run that raises ("none": no step)
    returned           \* run: the value returned ("none" while running)

vars == <<pc, doc, doc_open, page_num, product_data, products, product_idx,
          cleaned_products, csvfile, reported_total, min_size, img_index, matching_text_found,
          extracted_data, page_extracted, total_extracted, query, matches, stdout,
          pattern, match_idx, extracted_products, page_products, total_found,
          site, start_page, max_pages, consecutive_empty_pages, requests,
          current_url, visited_urls, cur_page, all_products, target_count, page_reads,
          scroll_attempt, last_height, last_product_count, stable_iterations,
          driver, fault, returned>>

pricesVars == <<product_data, products, product_idx, cleaned_products>>
imagesVars == <<min_size, img_index, matching_text_found, extracted_data,
                page_extracted, total_extracted>>
lookupVars == <<query, matches, stdout>>
infoVars == <<pattern, match_idx, extracted_products, page_products, total_found>>
crawlVars == <<site, start_page, max_pages, consecutive_empty_pages, requests>>
paginateVars == <<current_url, visited_urls, cur_page, all_products, target_count,
                  page_reads>>
scrollVars == <<scroll_attempt, last_height, last_product_count, stable_iterations>>
runVars == <<driver, fault, returned>>
webVars == <<crawlVars, paginateVars, scrollVars, runVars>>

(***************************************************************************)
(* Characters and the character classes of Python's re module.             *)
(***************************************************************************)
Digits == {"0", "1", "2", "3", "4", "5", "6", "7", "8", "9"}

LowerLetters == {"a", "b", "c", "d", "e", "f", "g", "h", "i", "j", "k", "l", "m",
                 "n", "o", "p", "q", "r", "s", "t", "u", "v", "w", "x", "y", "z"}

UpperLetters == {"A", "B", "C", "D", "E", "F", "G", "H", "I", "J", "K", "L", "M",
                 "N", "O", "P", "Q", "R", "S", "T", "U", "V", "W", "X", "Y", "Z"}

\* [A-Za-z0-9]
Alnum == Digits \cup LowerLetters \cup UpperLetters

\* \s
Whitespace == {" ", "\t", "\n", "\r", "\f"}

\* The position of the first character at or after i that is not in S
\* (Len(t) + 1 when there is none): how far a greedy S* runs from i.
RECURSIVE SkipWhile(_, _, _)
SkipWhile(t, i, S) ==
    IF i <= Len(t) /\ t[i] \in S THEN SkipWhile(t, i + 1, S) ELSE i

\* The position of the first character at or after i that is in S
\* (Len(t) + 1 when there is none): how far a greedy [^S]* runs from i.
RECURSIVE SkipUntil(_, _, _)
SkipUntil(t, i, S) ==
    IF i <= Len(t) /\ t[i] \notin S THEN SkipUntil(t, i + 1, S) ELSE i

\* str.strip()
RECURSIVE LStrip(_)
LStrip(s) == IF s # <<>> /\ Head(s) \in Whitespace THEN LStrip(Tail(s)) ELSE s

RECURSIVE RStrip(_)
RStrip(s) ==
    IF s # <<>> /\ s[Len(s)] \in Whitespace
    THEN RStrip(SubSeq(s, 1, Len(s) - 1))
    ELSE s

Strip(s) == RStrip(LStrip(s))

\* str.replace(old, new) for one-character old and new
ReplaceChar(s, old, new) == [i \in 1..Len(s) |-> IF s[i] = old THEN new ELSE s[i]]

(***************************************************************************)
(* Bounds of the inputs.                                                   *)
(***************************************************************************)
\* Text segments and page breaks a catalogue document is made of, at most.
MaxItems == 4

\* All sequences over S of length at most n.
SeqsUpTo(S, n) == UNION {[1..k -> S] : k \in 0..n}

\* The characters of a sequence.
Chars(s) == {s[i] : i \in 1..Len(s)}

(***************************************************************************)
(* scraper/extract_prices_position.py                                      *)
(***************************************************************************)

\* One match of
\*   (?P<id>[A-Za-z0-9]+(?:\.[A-Za-z0-9]+)+)\s*\|\s*(?P<name>[^\n€]+)
\* starting at position s of t, or [ok |-> FALSE].  The id is followed by
\* whitespace or '|', so it is the whole run of [A-Za-z0-9.] from s, which
\* must be dot-separated non-empty alphanumeric segments, two at least.
\* After the '|' the greedy \s* gives characters back, last first, until
\* the name finds a first character that is neither a newline nor '€'.
IdNameMatchAt(t, s) ==
    LET e == SkipWhile(t, s, Alnum \cup {"."})
        id == SubSeq(t, s, e - 1)
        idOk == /\ e > s
                /\ id[1] \in Alnum
                /\ id[Len(id)] \in Alnum
                /\ "." \in Chars(id)
                /\ \A i \in 1..(Len(id) - 1) : ~(id[i] = "." /\ id[i + 1] = ".")
        b == SkipWhile(t, e, Whitespace)
        barOk == b <= Len(t) /\ t[b] = "|"
        w == SkipWhile(t, b + 1, Whitespace)
        starts == {q \in (b + 1)..w : q <= Len(t) /\ t[q] \notin {"\n", "€"}}
        q == CHOOSE x \in starts : \A y \in starts : y <= x
        ne == SkipUntil(t, q, {"\n", "€"})
    IN  IF idOk /\ barOk /\ starts # {}
        THEN [ok |-> TRUE, id |-> id, name |-> SubSeq(t, q, ne - 1),
              start |-> s, end |-> ne]
        ELSE [ok |-> FALSE]

\* re.finditer: leftmost matches, each search resuming where the last
\* match ended.
RECURSIVE IdNameFindIter(_, _)
IdNameFindIter(t, pos) ==
    IF pos > Len(t) THEN <<>>
    ELSE LET m == IdNameMatchAt(t, pos)
         IN  IF m.ok THEN <<m>> \o IdNameFindIter(t, m.end)
                     ELSE IdNameFindIter(t, pos + 1)

id_name_matches(text) == IdNameFindIter(text, 1)

\* One match of  €\s*(?P<price>\d+[\.,]\d{1,2})  starting at position s.
PriceMatchAt(t, s) ==
    LET d0 == SkipWhile(t, s + 1, Whitespace)
        d1 == SkipWhile(t, d0, Digits)
        ok == /\ t[s] = "€"
              /\ d1 > d0
              /\ d1 + 1 <= Len(t)
              /\ t[d1] \in {".", ","}
              /\ t[d1 + 1] \in Digits
        end == IF d1 + 2 <= Len(t) /\ t[d1 + 2] \in Digits THEN d1 + 3 ELSE d1 + 2
    IN  IF ok
        THEN [ok |-> TRUE, price |-> SubSeq(t, d0, end - 1), start |-> s, end |-> end]
        ELSE [ok |-> FALSE]

RECURSIVE PriceFindIter(_, _)
PriceFindIter(t, pos) ==
    IF pos > Len(t) THEN <<>>
    ELSE LET m == PriceMatchAt(t, pos)
         IN  IF m.ok THEN <<m>> \o PriceFindIter(t, m.end)
                     ELSE PriceFindIter(t, pos + 1)

price_matches(text) == PriceFindIter(text, 1)

\* The sentinel of a missing price.
NotFound == <<"N", "o", "t", " ", "f", "o", "u", "n", "d">>

\* .replace(',', '.') on the matched amount
NormalizePrice_NoReplace(p) == p

NormalizePrice(p) == ReplaceChar(p, ",", ".")

\* The price of the i-th id/name match (i counts from 0, as enumerate does).
PriceAt_OffByOne(pm, i) ==
    IF i + 1 < Len(pm) THEN NormalizePrice(pm[i + 2].price) ELSE NotFound

PriceAt(pm, i) ==
    IF i < Len(pm) THEN NormalizePrice(pm[i + 1].price) ELSE NotFound

\* The dict appended for one id/name match.
ProductRecord(page, id_match, price) ==
    [Page |-> page,
     ID |-> id_match.id,
     Name |-> Strip(id_match.name),
     Price |-> IF price # NotFound THEN <<"€">> \o price ELSE price]

\* The records one page adds, in match order.
PageRecords(page, text) ==
    LET idm == id_name_matches(text)
        pm == price_matches(text)
    IN  [i \in 1..Len(idm) |-> ProductRecord(page, idm[i], PriceAt(pm, i - 1))]

\* re.sub(r'\s+', ' ', name)
RECURSIVE SubWhitespaceRuns(_)
SubWhitespaceRuns(s) ==
    IF s = <<>> THEN <<>>
    ELSE IF Head(s) \in Whitespace
         THEN <<" ">> \o SubWhitespaceRuns(SubSeq(s, SkipWhile(s, 1, Whitespace), Len(s)))
         ELSE <<Head(s)>> \o SubWhitespaceRuns(Tail(s))

\* re.sub(r'\s*\n\s*', ' ', name): a whitespace run holding a newline
\* becomes one space.
RECURSIVE SubNewlineRuns(_)
SubNewlineRuns(s) ==
    IF s = <<>> THEN <<>>
    ELSE LET e == SkipWhile(s, 1, Whitespace)
         IN  IF "\n" \in Chars(SubSeq(s, 1, e - 1))
             THEN <<" ">> \o SubNewlineRuns(SubSeq(s, e, Len(s)))
             ELSE <<Head(s)>> \o SubNewlineRuns(Tail(s))

clean_product_name(name) == Strip(SubNewlineRuns(SubWhitespaceRuns(name)))

\* The filter of the cleaning loop.
NameIsLongEnough(product) == Len(Strip(product.Name)) > 3

\* The text segments the pages of the modelled catalogues are made of.
PriceSegments ==
    { <<"1", ".", "2", "|", "a", " ", " ", "b">>,
      <<"B", ".", "7", " ", "|", " ", "P", "o", "l", "o", ",", " ", "L">>,
      <<"3", ".", "4", "|", "a", "b">>,
      <<"€", "1", "9", ",", "9", "9">>,
      <<"€", " ", "5", ".", "5">>,
      <<"\n">> }

\* A form feed ends a page of the item stream.
PageBreak == <<"\f">>

\* The pages of an item stream: the segments between page breaks, joined.
RECURSIVE SplitPages(_, _)
SplitPages(items, cur) ==
    IF items = <<>> THEN <<cur>>
    ELSE IF Head(items) = PageBreak
         THEN <<cur>> \o SplitPages(Tail(items), <<>>)
         ELSE SplitPages(Tail(items), cur \o Head(items))

PriceDocs == {SplitPages(items, <<>>) :
                 items \in SeqsUpTo(PriceSegments \cup {PageBreak}, MaxItems)}

NoFile == [written |-> FALSE, rows |-> <<>>]

\* The output file of a run, by name, before anything is written to it.
OutputFile(name) == [name |-> name, written |-> FALSE, rows |-> <<>>]

\* Values of the variables a script does not use.
IdlePrices ==
    /\ product_data = <<>>
    /\ products = <<>>
    /\ product_idx = 0
    /\ cleaned_products = <<>>

IdleImages ==
    /\ min_size = 0
    /\ img_index = 0
    /\ matching_text_found = FALSE
    /\ extracted_data = <<>>
    /\ page_extracted = 0
    /\ total_extracted = 0

IdleLookup ==
    /\ query = <<>>
    /\ matches = <<>>
    /\ stdout = <<>>

IdleInfo ==
    /\ pattern = ""
    /\ match_idx = 0
    /\ extracted_products = <<>>
    /\ page_products = 0
    /\ total_found = 0

IdleCrawl ==
    /\ site = <<>>
    /\ start_page = 0
    /\ max_pages = 0
    /\ consecutive_empty_pages = 0
    /\ requests = <<>>

IdlePaginate ==
    /\ current_url = 0
    /\ visited_urls = {}
    /\ cur_page = 0
    /\ all_products = <<>>
    /\ target_count = 0
    /\ page_reads = <<>>

IdleScroll ==
    /\ scroll_attempt = 0
    /\ last_height = 0
    /\ last_product_count = 0
    /\ stable_iterations = 0

IdleRun ==
    /\ driver = "none"
    /\ fault = "none"
    /\ returned = "none"

IdleWeb == IdleCrawl /\ IdlePaginate /\ IdleScroll /\ IdleRun

\* fitz.open(pdf_path) has returned and product_data = [].
InitPrices ==
    /\ pc = "extract"
    /\ doc \in PriceDocs
    /\ doc_open = TRUE
    /\ page_num = 0
    /\ csvfile = OutputFile("product_prices_accurate.csv")
    /\ reported_total = -1
    /\ IdlePrices
    /\ IdleImages
    /\ IdleLookup
    /\ IdleInfo
    /\ IdleWeb

\* One iteration of `for page_num, page in enumerate(doc, start=1)'.
ExtractPage ==
    /\ pc = "extract"
    /\ UNCHANGED webVars
    /\ UNCHANGED infoVars
    /\ page_num < Len(doc)
    /\ product_data' = product_data \o PageRecords(page_num + 1, doc[page_num + 1])
    /\ page_num' = page_num + 1
    /\ UNCHANGED <<pc, doc, doc_open, products, product_idx, cleaned_products,
                   csvfile, reported_total, imagesVars, lookupVars>>

\* The loop is exhausted: return product_data; products = the returned list.
ExtractReturn ==
    /\ pc = "extract"
    /\ UNCHANGED webVars
    /\ UNCHANGED infoVars
    /\ page_num = Len(doc)
    /\ products' = product_data
    /\ pc' = "clean"
    /\ UNCHANGED <<doc, doc_open, page_num, product_data, product_idx,
                   cleaned_products, csvfile, reported_total, imagesVars, lookupVars>>

\* A cleaning loop that puts each kept record in front of the ones kept
\* before it.
CleanProduct_Prepends ==
    /\ pc = "clean"
    /\ UNCHANGED webVars
    /\ product_idx < Len(products)
    /\ LET i == product_idx + 1
           product == products[i]
           cleaned == [product EXCEPT !.Name = clean_product_name(product.Name)]
       IN  IF NameIsLongEnough(product)
           THEN /\ products' = [products EXCEPT ![i] = cleaned]
                /\ cleaned_products' = <<cleaned>> \o cleaned_products
           ELSE UNCHANGED <<products, cleaned_products>>
    /\ product_idx' = product_idx + 1
    /\ UNCHANGED <<pc, doc, doc_open, page_num, product_data, csvfile,
                   reported_total, imagesVars, lookupVars, infoVars>>

\* One iteration of `for product in products'.  The dict appended to
\* cleaned_products is the one in products, whose Name is overwritten.
CleanProduct ==
    /\ pc = "clean"
    /\ UNCHANGED webVars
    /\ UNCHANGED infoVars
    /\ product_idx < Len(products)
    /\ LET i == product_idx + 1
           product == products[i]
           cleaned == [product EXCEPT !.Name = clean_product_name(product.Name)]
       IN  IF NameIsLongEnough(product)
           THEN /\ products' = [products EXCEPT ![i] = cleaned]
                /\ cleaned_products' = Append(cleaned_products, cleaned)
           ELSE UNCHANGED <<products, cleaned_products>>
    /\ product_idx' = product_idx + 1
    /\ UNCHANGED <<pc, doc, doc_open, page_num, product_data, csvfile,
                   reported_total, imagesVars, lookupVars>>

\* Print the results, write product_prices_accurate.csv, print the total.
SaveCsv ==
    /\ pc = "clean"
    /\ UNCHANGED webVars
    /\ UNCHANGED infoVars
    /\ product_idx = Len(products)
    /\ csvfile' = [csvfile EXCEPT !.written = TRUE, !.rows = cleaned_products]
    /\ reported_total' = Len(cleaned_products)
    /\ pc' = "done"
    /\ UNCHANGED <<doc, doc_open, page_num, pricesVars, imagesVars, lookupVars>>

NextPrices == ExtractPage \/ ExtractReturn \/ CleanProduct \/ SaveCsv

SpecPrices == InitPrices /\ [][NextPrices]_vars

(***************************************************************************)
(* Properties of extract_prices_position.py                                *)
(***************************************************************************)

\* The records of product_data that page p contributed, in list order.
RowsOfPage(p) == SelectSeq(product_data, LAMBDA r : r.Page = p)

\* out is raw with every ',' turned into '.', and nothing else changed.
IsCommaNormalized(raw, out) ==
    /\ Len(out) = Len(raw)
    /\ \A k \in 1..Len(raw) : out[k] = IF raw[k] = "," THEN "." ELSE raw[k]

\* C1: index pairing.  For every page the loop has handled, with N
\* identifier/name matches and M price matches, the page contributed exactly
\* N records; the i-th record carries the i-th price match (its amount with
\* ',' turned into '.', currency-tagged) for i < min(N, M), and the
\* 'Not found' sentinel for i >= M; surplus prices add no record.
C1_IndexPairing ==
    \A p \in 1..page_num :
        LET idm == id_name_matches(doc[p])
            pm == price_matches(doc[p])
            rows == RowsOfPage(p)
        IN  /\ Len(rows) = Len(idm)
            /\ \A i \in 1..Len(rows) :
                   /\ rows[i].ID = idm[i].id
                   /\ IF i <= Len(pm)
                      THEN /\ Head(rows[i].Price) = "€"
                           /\ IsCommaNormalized(pm[i].price, Tail(rows[i].Price))
                      ELSE rows[i].Price = NotFound

\* C1 witness: a handled page with more identifiers than prices, one price
\* at least, so that both a paired and a sentinel record were appended.
C1_Witness ==
    \E p \in 1..page_num :
        /\ Len(price_matches(doc[p])) >= 1
        /\ Len(id_name_matches(doc[p])) > Len(price_matches(doc[p]))
        /\ Len(RowsOfPage(p)) = Len(id_name_matches(doc[p]))

\* C8: name-length filter.  Every name in cleaned_products has length >= 4
\* after whitespace normalization (runs of whitespace collapsed to one
\* space, then trimmed).
C8_NameLengthFilter ==
    \A i \in 1..Len(cleaned_products) :
        Len(clean_product_name(cleaned_products[i].Name)) >= 4

\* "19,99" and "19.99"
Amount19Comma == <<"1", "9", ",", "9", "9">>

Amount19Dot == <<"1", "9", ".", "9", "9">>

\* C9: decimal normalization.  '19,99' and '19.99' both normalize to
\* '19.99'; normalizing a normalized amount changes nothing; no price
\* stored in a record holds a ','.
C9_DecimalNormalization ==
    /\ NormalizePrice(Amount19Comma) = Amount19Dot
    /\ NormalizePrice(Amount19Dot) = Amount19Dot
    /\ \A p \in 1..page_num :
           \A i \in 1..Len(price_matches(doc[p])) :
               LET amount == price_matches(doc[p])[i].price
               IN  NormalizePrice(NormalizePrice(amount)) = NormalizePrice(amount)
    /\ \A i \in 1..Len(product_data) : "," \notin Chars(product_data[i].Price)
    /\ \A i \in 1..Len(csvfile.rows) : "," \notin Chars(csvfile.rows[i].Price)

\* C9 witness: a record whose price was matched with a ',' separator has
\* been written to the output file.
C9_Witness ==
    /\ csvfile.written
    /\ \E p \in 1..Len(doc) :
           \E i \in 1..Len(price_matches(doc[p])) :
               /\ "," \in Chars(price_matches(doc[p])[i].price)
               /\ i <= Len(id_name_matches(doc[p]))
               /\ \E k \in 1..Len(csvfile.rows) :
                      /\ csvfile.rows[k].Page = p
                      /\ csvfile.rows[k].ID = id_name_matches(doc[p])[i].id

(***************************************************************************)
(* scraper/scrape_pdf_images.py                                            *)
(*                                                                         *)
(* A page is [images, text_blocks].  An image is                           *)
(*   [rects   : what page.get_image_rects(xref) returns,                   *)
(*    width, height : the pixel size of its Pixmap,                        *)
(*    pixmap  : "rgb"      colorspace.n in [1, 3]                          *)
(*              "cmyk"     another colorspace, converted to RGB            *)
(*              "cmyk_err" another colorspace, the conversion raises       *)
(*              "broken"   fitz.Pixmap(doc, xref) raises                   *)
(*              "unsaved"  pix.save raises].                               *)
(* A text block is the tuple (x0, y0, x1, y1, text, block_no, block_type). *)
(* Rectangles are [x0, y0, x1, y1]; page units are integers here.          *)
(***************************************************************************)

\* Images, text blocks and page breaks a document is made of, at most.
MaxImageItems == 3

\* Text blocks on the page of the one-image documents that vary the
\* geometry, at most.
MaxBlocks == 2

\* min_size=200
DefaultMinSize == 200

\* abs(text_rect.x0 - img_rect.x0) < 100
HorizontalTolerance == 100

\* text_rect.y0 - img_rect.y1 < 50
VerticalTolerance == 50

Abs(x) == IF x < 0 THEN -x ELSE x

Max(a, b) == IF a >= b THEN a ELSE b

Rect(x0, y0, x1, y1) == [x0 |-> x0, y0 |-> y0, x1 |-> x1, y1 |-> y1]

\* re.search(r'\d+\.\d+\s*\|', text): digits, '.', digits, whitespace, '|'
\* starting somewhere in the text.  Both digit runs are followed by a
\* non-digit, so each is the whole run of digits.
PatternSearch(text) ==
    \E s \in 1..Len(text) :
        LET a == SkipWhile(text, s, Digits)
            b == SkipWhile(text, a + 1, Digits)
            c == SkipWhile(text, b, Whitespace)
        IN  /\ a > s
            /\ a <= Len(text)
            /\ text[a] = "."
            /\ b > a + 1
            /\ c <= Len(text)
            /\ text[c] = "|"

\* The geometric test of both block scans.
BelowAndNear_NonStrict(text_rect, img_rect) ==
    /\ text_rect.y0 >= img_rect.y1
    /\ Abs(text_rect.x0 - img_rect.x0) <= HorizontalTolerance
    /\ text_rect.y0 - img_rect.y1 <= VerticalTolerance

BelowAndNear_NoHorizontal(text_rect, img_rect) ==
    /\ text_rect.y0 > img_rect.y1
    /\ text_rect.y0 - img_rect.y1 < VerticalTolerance

BelowAndNear(text_rect, img_rect) ==
    /\ text_rect.y0 > img_rect.y1
    /\ Abs(text_rect.x0 - img_rect.x0) < HorizontalTolerance
    /\ text_rect.y0 - img_rect.y1 < VerticalTolerance

\* What one block contributes to a scan: whether it is the block looked for.
BlockMatches(block, img_rect) ==
    /\ Len(block) >= 5
    /\ BelowAndNear(Rect(block[1], block[2], block[3], block[4]), img_rect)
    /\ PatternSearch(Strip(block[5]))

\* The first scan of text_blocks: matching_text_found.
FirstScan_AnyNearBlock(text_blocks, img_rect) ==
    \E k \in 1..Len(text_blocks) :
        /\ Len(text_blocks[k]) >= 5
        /\ BelowAndNear(Rect(text_blocks[k][1], text_blocks[k][2],
                             text_blocks[k][3], text_blocks[k][4]), img_rect)

RECURSIVE FirstScan(_, _)
FirstScan(text_blocks, img_rect) ==
    IF text_blocks = <<>> THEN FALSE
    ELSE IF BlockMatches(Head(text_blocks), img_rect) THEN TRUE
         ELSE FirstScan(Tail(text_blocks), img_rect)

\* The second scan of text_blocks: matching_text.
RECURSIVE SecondScan_LastMatch(_, _)
SecondScan_LastMatch(text_blocks, img_rect) ==
    IF text_blocks = <<>> THEN <<>>
    ELSE IF BlockMatches(text_blocks[Len(text_blocks)], img_rect)
         THEN Strip(text_blocks[Len(text_blocks)][5])
         ELSE SecondScan_LastMatch(SubSeq(text_blocks, 1, Len(text_blocks) - 1), img_rect)

\* A second scan that leaves the pattern test out.
RECURSIVE SecondScan_GeometryOnly(_, _)
SecondScan_GeometryOnly(text_blocks, img_rect) ==
    IF text_blocks = <<>> THEN <<>>
    ELSE IF /\ Len(Head(text_blocks)) >= 5
            /\ BelowAndNear(Rect(Head(text_blocks)[1], Head(text_blocks)[2],
                                 Head(text_blocks)[3], Head(text_blocks)[4]), img_rect)
         THEN Strip(Head(text_blocks)[5])
         ELSE SecondScan_GeometryOnly(Tail(text_blocks), img_rect)

RECURSIVE SecondScan(_, _)
SecondScan(text_blocks, img_rect) ==
    IF text_blocks = <<>> THEN <<>>
    ELSE IF BlockMatches(Head(text_blocks), img_rect) THEN Strip(Head(text_blocks)[5])
         ELSE SecondScan(Tail(text_blocks), img_rect)

\* The position of the first c in s (0 when there is none).
IndexOf(s, c) ==
    IF c \in Chars(s) THEN CHOOSE i \in 1..Len(s) : s[i] = c /\ \A j \in 1..(i - 1) : s[j] # c
    ELSE 0

\* re.sub(r'^[\.\s]+', '', id_part)
DropLeadingDots(s) == SubSeq(s, SkipWhile(s, 1, Whitespace \cup {"."}), Len(s))

\* id_part and name_part: matching_text split at its first '|'.
IdPart(matching_text) ==
    IF "|" \in Chars(matching_text)
    THEN Strip(DropLeadingDots(Strip(SubSeq(matching_text, 1, IndexOf(matching_text, "|") - 1))))
    ELSE <<>>

NamePart(matching_text) ==
    IF "|" \in Chars(matching_text)
    THEN Strip(SubSeq(matching_text, IndexOf(matching_text, "|") + 1, Len(matching_text)))
    ELSE <<>>

\* The size test that skips small images.
TooSmall_Inclusive(width, height, min) == width <= min \/ height <= min

TooSmall(width, height, min) == width < min \/ height < min

\* Whether the try block reaches extracted_data.append for this image.
ImageIsSaved(img) ==
    /\ img.pixmap \in {"rgb", "cmyk"}
    /\ ~TooSmall(img.width, img.height, min_size)

\* The dict appended for a saved image.
ImageRow(page, index, img, matching_text) ==
    [page |-> page,
     image_index |-> index,
     filename |-> <<"page", page, "img", index>>,
     width |-> img.width,
     height |-> img.height,
     full_text |-> matching_text,
     id |-> IdPart(matching_text),
     name |-> NamePart(matching_text)]

\* The rectangle every modelled image occupies.
ImageRect == Rect(0, 0, 300, 300)

Image(rects, width, height, pixmap) ==
    [rects |-> rects, width |-> width, height |-> height, pixmap |-> pixmap]

\* The images of the modelled documents: sizes at and just below the
\* default threshold, every way the Pixmap can fail, an image that is not
\* placed on the page.
ImageKinds ==
    {Image(<<ImageRect>>, w, h, "rgb") :
         w \in {DefaultMinSize - 1, DefaultMinSize},
         h \in {DefaultMinSize - 1, DefaultMinSize}}
    \cup {Image(<<ImageRect>>, DefaultMinSize, DefaultMinSize, px) :
              px \in {"cmyk", "cmyk_err", "broken", "unsaved"}}
    \cup {Image(<<>>, DefaultMinSize, DefaultMinSize, "rgb")}

\* The min_size arguments of the modelled runs.
MinSizes == {DefaultMinSize - 1, DefaultMinSize}

\* "16.1|Tee", "7.2 | Cap", "Tee"
TeeText == <<"1", "6", ".", "1", "|", "T", "e", "e">>

CapText == <<"7", ".", "2", " ", "|", " ", "C", "a", "p">>

PlainText == <<"T", "e", "e">>

\* A text block whose top-left corner is (x0, y0).
Block(x0, y0, text) == <<x0, y0, Max(300, x0 + 200), y0 + 20, text, 0, 0>>

\* The text blocks of the documents that run the whole script.
BlockKinds ==
    {Block(10, 310, TeeText), Block(10, 310, PlainText), Block(500, 310, TeeText)}

\* The text blocks of the documents that vary the geometry: around the
\* image's left edge x0 = 0 and bottom edge y1 = 300, on both sides of each
\* threshold.
GeomBlocks ==
    {Block(x, y, text) :
         x \in {-100, -99, 10, 99, 100, 500},
         y \in {310},
         text \in {TeeText, CapText, PlainText}}
    \cup {Block(x, y, text) :
         x \in {10},
         y \in {300, 301, 349, 350},
         text \in {TeeText, CapText, PlainText}}

EmptyPage == [images |-> <<>>, text_blocks |-> <<>>]

\* The pages of an item stream of images, text blocks and page breaks.
RECURSIVE ImagePages(_, _)
ImagePages(items, cur) ==
    IF items = <<>> THEN <<cur>>
    ELSE LET item == Head(items)
         IN  IF item[1] = "break"
             THEN <<cur>> \o ImagePages(Tail(items), EmptyPage)
             ELSE IF item[1] = "image"
                  THEN ImagePages(Tail(items),
                                  [cur EXCEPT !.images = Append(@, item[2])])
                  ELSE ImagePages(Tail(items),
                                  [cur EXCEPT !.text_blocks = Append(@, item[2])])

ImageItems ==
    {<<"image", img>> : img \in ImageKinds}
    \cup {<<"block", block>> : block \in BlockKinds}
    \cup {<<"break">>}

ImageDocs == {ImagePages(items, EmptyPage) : items \in SeqsUpTo(ImageItems, MaxImageItems)}

GeomDocs ==
    {<<[images |-> <<Image(<<ImageRect>>, DefaultMinSize, DefaultMinSize, "rgb")>>,
        text_blocks |-> blocks]>> : blocks \in SeqsUpTo(GeomBlocks, MaxBlocks)}

\* The current page's images and text blocks.
images == doc[page_num + 1].images

text_blocks == doc[page_num + 1].text_blocks

\* fitz.open and os.makedirs have returned; total_extracted = 0,
\* extracted_data = [].
InitImages ==
    /\ pc = "page"
    /\ \/ doc \in ImageDocs /\ min_size \in MinSizes
       \/ doc \in GeomDocs /\ min_size = DefaultMinSize
    /\ doc_open = TRUE
    /\ page_num = 0
    /\ img_index = 0
    /\ matching_text_found = FALSE
    /\ extracted_data = <<>>
    /\ page_extracted = 0
    /\ total_extracted = 0
    /\ csvfile = OutputFile("extracted_images.csv")
    /\ reported_total = -1
    /\ IdlePrices
    /\ IdleLookup
    /\ IdleInfo
    /\ IdleWeb

\* Top of `for page_num, page in enumerate(doc)': a page without images is
\* passed over, otherwise its text blocks are read and the image loop starts.
BeginPage ==
    /\ pc = "page"
    /\ UNCHANGED webVars
    /\ UNCHANGED infoVars
    /\ page_num < Len(doc)
    /\ IF images = <<>>
       THEN /\ page_num' = page_num + 1
            /\ UNCHANGED <<pc, img_index, page_extracted>>
       ELSE /\ pc' = "images"
            /\ img_index' = 0
            /\ page_extracted' = 0
            /\ UNCHANGED page_num
    /\ UNCHANGED <<doc, doc_open, csvfile, reported_total, min_size,
                   matching_text_found, extracted_data, total_extracted,
                   pricesVars, lookupVars>>

\* An image loop without its except clauses: the exception of a Pixmap that
\* cannot be built, converted or saved ends the run where it is raised.
ProcessImage_ErrorsPropagate ==
    /\ pc = "images"
    /\ UNCHANGED webVars
    /\ img_index < Len(images)
    /\ LET img == images[img_index + 1]
           found == FirstScan(text_blocks, img.rects[1])
       IN  IF img.rects = <<>>
           THEN UNCHANGED <<pc, matching_text_found, extracted_data, page_extracted,
                            total_extracted>>
           ELSE /\ matching_text_found' = found
                /\ pc' = IF found /\ img.pixmap \in {"cmyk_err", "broken", "unsaved"}
                         THEN "done" ELSE pc
                /\ IF found /\ ImageIsSaved(img)
                   THEN /\ extracted_data' =
                              Append(extracted_data,
                                     ImageRow(page_num + 1, img_index + 1, img,
                                              SecondScan(text_blocks, img.rects[1])))
                        /\ page_extracted' = page_extracted + 1
                        /\ total_extracted' = total_extracted + 1
                   ELSE UNCHANGED <<extracted_data, page_extracted, total_extracted>>
    /\ img_index' = img_index + 1
    /\ UNCHANGED <<doc, doc_open, page_num, csvfile, reported_total, min_size,
                   pricesVars, lookupVars, infoVars>>

\* One iteration of `for img_index, img in enumerate(images)'.
ProcessImage ==
    /\ pc = "images"
    /\ UNCHANGED webVars
    /\ UNCHANGED infoVars
    /\ img_index < Len(images)
    /\ LET img == images[img_index + 1]
           found == FirstScan(text_blocks, img.rects[1])
       IN  IF img.rects = <<>>
           THEN UNCHANGED <<matching_text_found, extracted_data, page_extracted,
                            total_extracted>>
           ELSE /\ matching_text_found' = found
                /\ IF found /\ ImageIsSaved(img)
                   THEN /\ extracted_data' =
                              Append(extracted_data,
                                     ImageRow(page_num + 1, img_index + 1, img,
                                              SecondScan(text_blocks, img.rects[1])))
                        /\ page_extracted' = page_extracted + 1
                        /\ total_extracted' = total_extracted + 1
                   ELSE UNCHANGED <<extracted_data, page_extracted, total_extracted>>
    /\ img_index' = img_index + 1
    /\ UNCHANGED <<pc, doc, doc_open, page_num, csvfile, reported_total, min_size,
                   pricesVars, lookupVars>>

\* The image loop is exhausted: report the page, go to the next one.
EndPage ==
    /\ pc = "images"
    /\ UNCHANGED webVars
    /\ UNCHANGED infoVars
    /\ img_index = Len(images)
    /\ pc' = "page"
    /\ page_num' = page_num + 1
    /\ UNCHANGED <<doc, doc_open, csvfile, reported_total, imagesVars,
                   pricesVars, lookupVars>>

\* An end of run that writes extracted_images.csv whatever was collected.
SaveImagesCsv_AlwaysWrites ==
    /\ pc = "page"
    /\ UNCHANGED webVars
    /\ page_num = Len(doc)
    /\ reported_total' = total_extracted
    /\ csvfile' = [csvfile EXCEPT !.written = TRUE, !.rows = extracted_data]
    /\ pc' = "close"
    /\ UNCHANGED <<doc, doc_open, page_num, imagesVars, pricesVars, lookupVars, infoVars>>

\* The page loop is exhausted: print the total; write extracted_images.csv
\* if any row was collected.
SaveImagesCsv ==
    /\ pc = "page"
    /\ UNCHANGED webVars
    /\ UNCHANGED infoVars
    /\ page_num = Len(doc)
    /\ reported_total' = total_extracted
    /\ csvfile' = IF extracted_data # <<>>
                  THEN [csvfile EXCEPT !.written = TRUE, !.rows = extracted_data]
                  ELSE csvfile
    /\ pc' = "close"
    /\ UNCHANGED <<doc, doc_open, page_num, imagesVars, pricesVars, lookupVars>>

\* doc.close()
CloseDoc ==
    /\ pc = "close"
    /\ UNCHANGED webVars
    /\ UNCHANGED infoVars
    /\ doc_open' = FALSE
    /\ pc' = "done"
    /\ UNCHANGED <<doc, page_num, csvfile, reported_total, imagesVars,
                   pricesVars, lookupVars>>

NextImages == BeginPage \/ ProcessImage \/ EndPage \/ SaveImagesCsv \/ CloseDoc

SpecImages == InitImages /\ [][NextImages]_vars

(***************************************************************************)
(* Properties of scrape_pdf_images.py                                      *)
(***************************************************************************)

\* The image loop has just handled an image that is placed on the page.
LastHandled ==
    /\ pc = "images"
    /\ img_index >= 1
    /\ images[img_index].rects # <<>>

LastImage == images[img_index]

\* The three geometric conditions, on the offsets of the block's top-left
\* corner from the image's left and bottom edges.
GeometricallyClose(block, img_rect) ==
    LET dx == block[1] - img_rect.x0
        dy == block[2] - img_rect.y1
    IN  dy > 0 /\ dx > -100 /\ dx < 100 /\ dy < 50

\* The three geometric conditions and the identifier pattern in the text.
CloseWithPattern(block, img_rect) ==
    GeometricallyClose(block, img_rect) /\ PatternSearch(Strip(block[5]))

\* The images the run has handled so far, as <<page, index>> (from 1).
Handled ==
    {pk \in (1..Len(doc)) \X (1..MaxImageItems) :
        /\ pk[2] <= Len(doc[pk[1]].images)
        /\ \/ pk[1] <= page_num
           \/ pk[1] = page_num + 1 /\ pc = "images" /\ pk[2] <= img_index}

RowsOf(p, k) ==
    SelectSeq(extracted_data, LAMBDA r : r.page = p /\ r.image_index = k)

\* C2 as stated: an image and a text block are associated if and only if
\* the three geometric conditions hold, nothing else deciding: the image
\* just handled found a matching text exactly when some block of the page
\* satisfies the three conditions.
C2_GeometryAloneDecides ==
    LastHandled =>
        (matching_text_found <=>
            \E k \in 1..Len(text_blocks) :
                GeometricallyClose(text_blocks[k], LastImage.rects[1]))

\* C2 amended: an image and a text block are associated if and only if the
\* three geometric conditions hold (all strict) and the block's stripped
\* text matches the pattern.
C2_GeometryAndPattern ==
    LastHandled =>
        (matching_text_found <=>
            \E k \in 1..Len(text_blocks) :
                CloseWithPattern(text_blocks[k], LastImage.rects[1]))

\* C2 witness: the image was associated with a block 49 units below it,
\* while a pattern block exactly 100 units to the right was passed over.
C2_Witness ==
    /\ LastHandled
    /\ matching_text_found
    /\ text_blocks = <<Block(100, 310, TeeText), Block(10, 349, CapText)>>
    /\ Len(extracted_data) = 1
    /\ extracted_data[1].full_text = CapText

\* C3: with an image at rect(0,0,300,300), a block at rect(10,310,300,330)
\* holding an identifier pattern is associated with it; blocks at
\* rect(500,310,700,330) are not.
C3_ProximityScenario ==
    (LastHandled /\ LastImage.rects[1] = Rect(0, 0, 300, 300)) =>
        /\ (\E k \in 1..Len(text_blocks) :
               /\ SubSeq(text_blocks[k], 1, 4) = <<10, 310, 300, 330>>
               /\ PatternSearch(text_blocks[k][5]))
           => matching_text_found
        /\ (\A k \in 1..Len(text_blocks) :
               SubSeq(text_blocks[k], 1, 4) = <<500, 310, 700, 330>>)
           => ~matching_text_found
        /\ \A i \in 1..Len(RowsOf(page_num + 1, img_index)) :
               \E k \in 1..Len(text_blocks) :
                   /\ SubSeq(text_blocks[k], 1, 4) # <<500, 310, 700, 330>>
                   /\ RowsOf(page_num + 1, img_index)[i].full_text = text_blocks[k][5]

\* C3 witness: both blocks of the scenario are on the page, and the row
\* of the image carries the text of the block at (10, 310).
C3_Witness ==
    /\ LastHandled
    /\ LastImage.rects[1] = Rect(0, 0, 300, 300)
    /\ text_blocks = <<Block(500, 310, CapText), Block(10, 310, TeeText)>>
    /\ matching_text_found
    /\ Len(extracted_data) = 1
    /\ extracted_data[1].full_text = TeeText

\* C4: first-match policy.  Every emitted row records the first block, in
\* text-stream order, that satisfies the association test for its image:
\* its stripped text as full_text, and the id and name split from it.
C4_FirstMatch ==
    \A i \in 1..Len(extracted_data) :
        LET r == extracted_data[i]
            blocks == doc[r.page].text_blocks
            rect == doc[r.page].images[r.image_index].rects[1]
            qualifying == {k \in 1..Len(blocks) : CloseWithPattern(blocks[k], rect)}
            first == CHOOSE k \in qualifying : \A j \in qualifying : k <= j
        IN  /\ qualifying # {}
            /\ r.full_text = Strip(blocks[first][5])
            /\ r.id = IdPart(Strip(blocks[first][5]))
            /\ r.name = NamePart(Strip(blocks[first][5]))

\* C4 witness: two blocks qualify, the second one nearer to the image (1
\* unit below it, the first 49), and the row carries the first one's text.
C4_Witness ==
    /\ LastHandled
    /\ text_blocks = <<Block(10, 349, TeeText), Block(10, 301, CapText)>>
    /\ Len(extracted_data) = 1
    /\ extracted_data[1].full_text = TeeText
    /\ extracted_data[1].name = <<"T", "e", "e">>

\* C5: minimum-size filter.  No image narrower or lower than min_size has a
\* row, whatever text lies near it, and the counters count the rows only;
\* an image of exactly min_size by min_size that has a matching block and
\* a usable Pixmap has its row.
C5_MinimumSizeFilter ==
    /\ \A i \in 1..Len(extracted_data) :
           /\ extracted_data[i].width >= min_size
           /\ extracted_data[i].height >= min_size
    /\ \A pk \in Handled :
           LET img == doc[pk[1]].images[pk[2]]
           IN  /\ (img.width < min_size \/ img.height < min_size)
                      => RowsOf(pk[1], pk[2]) = <<>>
               /\ (/\ img.width = min_size
                   /\ img.height = min_size
                   /\ img.rects # <<>>
                   /\ img.pixmap \in {"rgb", "cmyk"}
                   /\ \E k \in 1..Len(doc[pk[1]].text_blocks) :
                          CloseWithPattern(doc[pk[1]].text_blocks[k], img.rects[1]))
                      => Len(RowsOf(pk[1], pk[2])) = 1
    /\ total_extracted = Len(extracted_data)
    /\ pc = "images" =>
           page_extracted =
               Len(SelectSeq(extracted_data, LAMBDA r : r.page = page_num + 1))

\* C5 witness: of two images above the same matching block, the one of
\* exactly min_size by min_size was emitted and the one a pixel narrower
\* was not.
C5_Witness ==
    /\ pc = "images"
    /\ img_index = 2
    /\ images[1].width = min_size - 1
    /\ images[1].rects # <<>>
    /\ images[2].width = min_size /\ images[2].height = min_size
    /\ \E k \in 1..Len(text_blocks) : CloseWithPattern(text_blocks[k], ImageRect)
    /\ RowsOf(page_num + 1, 1) = <<>>
    /\ Len(RowsOf(page_num + 1, 2)) = 1
    /\ total_extracted = 1

\* No text block of the current page satisfies the association test for
\* the image the loop handles next.
NextImageUnmatched ==
    /\ pc = "images"
    /\ img_index < Len(images)
    /\ LET img == images[img_index + 1]
       IN  \/ img.rects = <<>>
           \/ \A k \in 1..Len(text_blocks) :
                  ~CloseWithPattern(text_blocks[k], img.rects[1])

\* C6: an image that matches no text block is skipped entirely: handling
\* it adds no row and changes neither page_extracted nor total_extracted.
C6_UnmatchedImageSkipped ==
    [][NextImageUnmatched =>
          /\ extracted_data' = extracted_data
          /\ page_extracted' = page_extracted
          /\ total_extracted' = total_extracted]_vars

\* C6 witness: a full-size RGB image was handled on a page whose only
\* block is close to it but holds no identifier pattern, and nothing was
\* emitted.
C6_Witness ==
    /\ LastHandled
    /\ LastImage.pixmap = "rgb"
    /\ ~TooSmall(LastImage.width, LastImage.height, min_size)
    /\ text_blocks = <<Block(10, 310, PlainText)>>
    /\ ~matching_text_found
    /\ extracted_data = <<>>
    /\ total_extracted = 0
    /\ page_extracted = 0

(***************************************************************************)
(* search_price.py                                                         *)
(***************************************************************************)

\* Rows of the loaded table, at most.
MaxRows == 3

\* The cased letters str.lower() maps, upper case and lower case aligned.
UpperAlphabet ==
    <<"A", "B", "C", "D", "E", "F", "G", "H", "I", "J", "K", "L", "M",
      "N", "O", "P", "Q", "R", "S", "T", "U", "V", "W", "X", "Y", "Z",
      "Ä", "Ö", "Ü">>

LowerAlphabet ==
    <<"a", "b", "c", "d", "e", "f", "g", "h", "i", "j", "k", "l", "m",
      "n", "o", "p", "q", "r", "s", "t", "u", "v", "w", "x", "y", "z",
      "ä", "ö", "ü">>

LowerChar(c) ==
    IF c \in Chars(UpperAlphabet)
    THEN LowerAlphabet[CHOOSE i \in 1..Len(UpperAlphabet) : UpperAlphabet[i] = c]
    ELSE c

\* str.lower()
Lower(s) == [i \in 1..Len(s) |-> LowerChar(s[i])]

\* needle in hay
Contains(hay, needle) ==
    \E i \in 0..(Len(hay) - Len(needle)) : SubSeq(hay, i + 1, i + Len(needle)) = needle

find_price_NameNotLowered(table, q) ==
    SelectSeq(table, LAMBDA p : Contains(p.name, Lower(q)))

find_price(table, q) ==
    SelectSeq(table, LAMBDA p : Contains(Lower(p.name), Lower(q)))

\* The rows of the modelled tables: "Polo", "POLO Tee", "Tee", "Schürze".
TableRows ==
    { [name |-> <<"P", "o", "l", "o">>,
       price |-> <<"1", "9", ".", "9", "9">>, id |-> <<"B", ".", "7">>],
      [name |-> <<"P", "O", "L", "O", " ", "T", "e", "e">>,
       price |-> <<"5", ".", "5">>, id |-> <<>>],
      [name |-> <<"T", "e", "e">>,
       price |-> <<"5", ".", "5">>, id |-> <<"1", ".", "2">>],
      [name |-> <<"S", "c", "h", "ü", "r", "z", "e">>,
       price |-> <<"7", ".", "0">>, id |-> <<"3", ".", "4">>] }

\* The lines typed at the prompt: "polo", " Tee ", "O T", "SCHÜRZE", "x",
\* "", "  ".
InputLines ==
    { <<"p", "o", "l", "o">>,
      <<" ", "T", "e", "e", " ">>,
      <<"O", " ", "T">>,
      <<"S", "C", "H", "Ü", "R", "Z", "E">>,
      <<"x">>,
      <<>>,
      <<" ", " ">> }

\* main() is entered.
InitLookup ==
    /\ pc = "load"
    /\ products = <<>>
    /\ query = <<>>
    /\ matches = <<>>
    /\ stdout = <<>>
    /\ doc = <<>>
    /\ doc_open = FALSE
    /\ page_num = 0
    /\ csvfile = NoFile
    /\ reported_total = -1
    /\ product_data = <<>>
    /\ product_idx = 0
    /\ cleaned_products = <<>>
    /\ IdleImages
    /\ IdleInfo
    /\ IdleWeb

\* products = load_products(): the rows of the CSV file, in file order.
LoadProducts ==
    /\ pc = "load"
    /\ UNCHANGED webVars
    /\ UNCHANGED infoVars
    /\ products' \in SeqsUpTo(TableRows, MaxRows)
    /\ pc' = "input"
    /\ UNCHANGED <<doc, doc_open, page_num, product_data, product_idx,
                   cleaned_products, csvfile, reported_total, imagesVars,
                   query, matches, stdout>>

\* A query that is never taken for empty.
NotQuery_Never(q) == FALSE

\* `not query': the empty str is the only false one.
NotQuery(q) == q = <<>>

\* query = input(...).strip(); an empty query is reported and main returns.
ReadQuery ==
    /\ pc = "input"
    /\ UNCHANGED webVars
    /\ UNCHANGED infoVars
    /\ \E line \in InputLines :
           /\ query' = Strip(line)
           /\ IF NotQuery(Strip(line))
              THEN /\ stdout' = Append(stdout, <<"No product name entered">>)
                   /\ pc' = "done"
              ELSE /\ pc' = "search"
                   /\ UNCHANGED stdout
    /\ UNCHANGED <<doc, doc_open, page_num, pricesVars, csvfile, reported_total,
                   imagesVars, matches>>

\* matches = find_price(products, query)
Search ==
    /\ pc = "search"
    /\ UNCHANGED webVars
    /\ UNCHANGED infoVars
    /\ matches' = find_price(products, query)
    /\ pc' = "print"
    /\ UNCHANGED <<doc, doc_open, page_num, pricesVars, csvfile, reported_total,
                   imagesVars, query, stdout>>

\* The line printed for one match.
MatchLine(product) ==
    IF product.id # <<>>
    THEN <<product.name, "(ID:", product.id, ") -> Price:", product.price>>
    ELSE <<product.name, "-> Price:", product.price>>

\* Print one line per match, or "Product not found".
PrintMatches ==
    /\ pc = "print"
    /\ UNCHANGED webVars
    /\ UNCHANGED infoVars
    /\ stdout' = IF matches # <<>>
                 THEN stdout \o [i \in 1..Len(matches) |-> MatchLine(matches[i])]
                 ELSE Append(stdout, <<"Product not found">>)
    /\ pc' = "done"
    /\ UNCHANGED <<doc, doc_open, page_num, pricesVars, csvfile, reported_total,
                   imagesVars, query, matches>>

NextLookup == LoadProducts \/ ReadQuery \/ Search \/ PrintMatches

SpecLookup == InitLookup /\ [][NextLookup]_vars

(***************************************************************************)
(* Properties of search_price.py                                           *)
(***************************************************************************)

\* The pairs of an upper-case letter and its lower-case form.
CasePairs == {<<UpperAlphabet[i], LowerAlphabet[i]>> : i \in 1..Len(UpperAlphabet)}

\* The same character, or the same letter in different case.
SameIgnoringCase(c, d) == c = d \/ <<c, d>> \in CasePairs \/ <<d, c>> \in CasePairs

\* name holds q at some offset, letter case ignored.
HoldsIgnoringCase(name, q) ==
    \E off \in 0..(Len(name) - Len(q)) :
        \A k \in 1..Len(q) : SameIgnoringCase(name[off + k], q[k])

\* The positions of table whose name holds q.
HitsIn(table, q) == {i \in 1..Len(table) : HoldsIgnoringCase(table[i].name, q)}

Hits == HitsIn(products, query)

\* The j-th smallest element of a set of numbers.
Nth(S, j) == CHOOSE i \in S : Cardinality({x \in S : x <= i}) = j

\* result is the rows of table at the positions S, each once, in table order.
IsSelection(result, table, S) ==
    /\ Len(result) = Cardinality(S)
    /\ \A j \in 1..Len(result) : result[j] = table[Nth(S, j)]

\* C10: lookup.  What find_price returns is exactly the records whose name
\* contains the query as a case-insensitive substring, each once and in
\* table order: for the query main() searched with, and for every input
\* line handed to find_price as it is (the empty one included) on the
\* loaded table.
C10_Lookup ==
    /\ pc \in {"print", "done"} /\ query # <<>> => IsSelection(matches, products, Hits)
    /\ pc # "load" =>
           \A line \in InputLines :
               IsSelection(find_price(products, line), products, HitsIn(products, line))

\* C10 witness: the query "polo" found "Polo" and "POLO Tee", first and
\* third of a table whose second row "Tee" was left out.
C10_Witness ==
    /\ pc = "print"
    /\ query = <<"p", "o", "l", "o">>
    /\ Len(products) = 3
    /\ Hits = {1, 3}
    /\ products[1].name # products[3].name
    /\ matches = <<products[1], products[3]>>

\* The one line main() prints for an empty query.
EmptyQueryNotice == <<"No product name entered">>

\* C11: empty query.  find_price is called only with a query that is not
\* empty after strip(): the search step is never reached with an empty
\* query, and a run that read an empty query ends with no match found and
\* nothing printed but the notice, whatever the table holds.
C11_EmptyQueryRejected ==
    /\ pc \in {"search", "print"} => query # <<>>
    /\ pc = "done" /\ query = <<>> => matches = <<>> /\ stdout = <<EmptyQueryNotice>>
    /\ pc = "done" /\ query # <<>> => EmptyQueryNotice \notin Chars(stdout)

\* C11 witness: an empty query was read against a loaded table of three
\* rows, each of which holds the empty string, and the run is over.
C11_Witness ==
    /\ pc = "done"
    /\ query = <<>>
    /\ Len(products) = 3
    /\ Hits = {1, 2, 3}
    /\ matches = <<>>
    /\ stdout = <<EmptyQueryNotice>>

(***************************************************************************)
(* scraper/extract_product_info.py                                         *)
(***************************************************************************)

\* Pages are streams of at most MaxInfoItems segments and page breaks.
MaxInfoItems == 3

\* The characters of a chunk, and of full_text, that are kept.
ChunkLength == 1000

FullTextLength == 500

Min(a, b) == IF a <= b THEN a ELSE b

\* \w (and so [\d\w]) for the characters of the modelled catalogues
WordChars == Alnum \cup {"_", "²", "ä", "ö", "ü", "Ä", "Ö", "Ü"}

\* The default of the pattern argument, and an identifier pattern that does
\* not take the '|' in.
DefaultPattern == "[\\d\\w]+\\.[\\d\\w]+[A-Z]?\\s*\\|"

IdOnlyPattern == "\\d+\\.\\d+"

\* The position of the last character of the match of pat that starts at
\* s; 0 when pat does not match at s.  Every run is greedy, and giving
\* characters of a run back never helps: the character after a run is not
\* one the run could take.
PatternMatchAt(pat, t, s) ==
    IF pat = DefaultPattern
    THEN LET a == SkipWhile(t, s, WordChars)
             b == SkipWhile(t, a + 1, WordChars)
             c == SkipWhile(t, b, Whitespace)
         IN  IF a > s /\ a <= Len(t) /\ t[a] = "." /\ b > a + 1
                /\ c <= Len(t) /\ t[c] = "|"
             THEN c ELSE 0
    ELSE LET a == SkipWhile(t, s, Digits)
             b == SkipWhile(t, a + 1, Digits)
         IN  IF a > s /\ a <= Len(t) /\ t[a] = "." /\ b > a + 1
             THEN b - 1 ELSE 0

\* The leftmost of the positions starts that is at or after pos, then the
\* leftmost after the end of its match, and so on.
RECURSIVE NonOverlapping(_, _, _, _)
NonOverlapping(pat, t, starts, pos) ==
    LET rest == {s \in starts : s >= pos}
    IN  IF rest = {} THEN <<>>
        ELSE LET s == CHOOSE x \in rest : \A y \in rest : x <= y
             IN  <<s>> \o NonOverlapping(pat, t, starts, PatternMatchAt(pat, t, s) + 1)

\* re.finditer(pattern, text_content, ...): the starts of the
\* non-overlapping matches, leftmost first, scanning from pos.
PatternFindIter(pat, t, pos) ==
    NonOverlapping(pat, t, {s \in 1..Len(t) : PatternMatchAt(pat, t, s) # 0}, pos)

\* text_content[match_start:match_start + 1000]
text_chunk(text_content, match_start) ==
    SubSeq(text_content, match_start,
           Min(Len(text_content), match_start + ChunkLength - 1))

\* What parse_product_text returns for a chunk it cannot parse.
None == [none |-> TRUE]

\* parts[0].strip() with its leading dots and whitespace removed.
product_id(chunk) ==
    Strip(DropLeadingDots(Strip(SubSeq(chunk, 1, IndexOf(chunk, "|") - 1))))

\* parts[1].strip()
rest_text(chunk) == Strip(SubSeq(chunk, IndexOf(chunk, "|") + 1, Len(chunk)))

\* \s+\d+g/m² matches at k.
WeightTokenAt(t, k) ==
    LET d == SkipWhile(t, k, Whitespace)
        e == SkipWhile(t, d, Digits)
    IN  /\ d > k
        /\ e > d
        /\ e + 3 <= Len(t)
        /\ SubSeq(t, e, e + 3) = <<"g", "/", "m", "²">>

\* The positions at which the lazy group of ^([^,]+?)(?:\s+\d+g/m²|,) may
\* end: after one character or more, none a comma, with a weight token or a
\* comma next.
NameStops(rest) ==
    {k \in 2..Min(Len(rest), SkipUntil(rest, 1, {","})) :
        IF rest[k] = "," THEN TRUE ELSE WeightTokenAt(rest, k)}

\* A name rule that cuts at the first comma only.
product_name_CommaOnly(rest) == Strip(SubSeq(rest, 1, SkipUntil(rest, 1, {","}) - 1))

\* name: the group of the first regex, else of ^([^,]+), else "".
product_name(rest) ==
    LET stops == NameStops(rest)
    IN  IF stops # {}
        THEN Strip(SubSeq(rest, 1, (CHOOSE k \in stops : \A j \in stops : k <= j) - 1))
        ELSE IF SkipUntil(rest, 1, {","}) > 1
             THEN Strip(SubSeq(rest, 1, SkipUntil(rest, 1, {","}) - 1))
             ELSE <<>>

\* (?:XS|S|M|L|XL|XXL|\d+XL) at s: the position after the token, 0 if none.
SizeTokenEnd(t, s) ==
    LET at(i) == IF i <= Len(t) THEN t[i] ELSE ""
        d == SkipWhile(t, s, Digits)
    IN  IF at(s) \in {"S", "M", "L"} THEN s + 1
        ELSE IF at(s) = "X" /\ at(s + 1) \in {"S", "L"} THEN s + 2
        ELSE IF at(s) = "X" /\ at(s + 1) = "X" /\ at(s + 2) = "L" THEN s + 3
        ELSE IF d > s /\ at(d) = "X" /\ at(d + 1) = "L" THEN d + 2
        ELSE 0

\* The lookahead (?=\d+\s*€|\d+\s+\d+\s*€) holds at e.
PriceAhead(t, e) ==
    LET at(i) == IF i <= Len(t) THEN t[i] ELSE ""
        d == SkipWhile(t, e, Digits)
        w == SkipWhile(t, d, Whitespace)
        d2 == SkipWhile(t, w, Digits)
        w2 == SkipWhile(t, d2, Whitespace)
    IN  /\ d > e
        /\ IF at(w) = "€" THEN TRUE ELSE w > d /\ d2 > w /\ at(w2) = "€"

\* Where group 1 of sizes_pattern ends (the position after it) when it
\* starts at s; 0 when the pattern does not match at s.  After the first
\* token the dash-separated tokens and the lazy [^€]*? take whatever lies
\* before the first position the lookahead holds at, as long as no '€' is
\* crossed; no such position lies inside a token.
SizesEnd(t, s) ==
    LET te == SizeTokenEnd(t, s)
        ends == {e \in te..Min(Len(t), SkipUntil(t, te, {"€"})) : PriceAhead(t, e)}
    IN  IF te = 0 \/ ends = {} THEN 0
        ELSE CHOOSE e \in ends : \A f \in ends : e <= f

\* re.search(sizes_pattern, rest_text).group(1).strip(), "" without a match
sizes_match(rest) ==
    LET starts == {s \in 1..Len(rest) : SizesEnd(rest, s) # 0}
    IN  IF starts = {} THEN <<>>
        ELSE LET s == CHOOSE x \in starts : \A y \in starts : x <= y
             IN  Strip(SubSeq(rest, s, SizesEnd(rest, s) - 1))

\* re.sub(r'\s*\*[^€]*', '*', sizes): sizes holds no '€', so everything from
\* the whitespace before its first '*' on becomes one '*'.
SubStarTail(s) ==
    IF "*" \in Chars(s)
    THEN Append(RStrip(SubSeq(s, 1, IndexOf(s, "*") - 1)), "*")
    ELSE s

\* re.sub(r'\s{2,}', ' ', sizes)
RECURSIVE SubLongWhitespaceRuns(_)
SubLongWhitespaceRuns(s) ==
    IF s = <<>> THEN <<>>
    ELSE IF SkipWhile(s, 1, Whitespace) > 2
         THEN <<" ">> \o SubLongWhitespaceRuns(SubSeq(s, SkipWhile(s, 1, Whitespace), Len(s)))
         ELSE <<Head(s)>> \o SubLongWhitespaceRuns(Tail(s))

\* sizes, cleaned up when not empty
product_sizes(rest) ==
    LET sizes == sizes_match(rest)
    IN  IF sizes # <<>> THEN SubLongWhitespaceRuns(SubStarTail(sizes)) ELSE <<>>

\* The position after (\d+(?:[,.-]\d+)*) when its first digit is at w.
RECURSIVE AmountEnd(_, _)
AmountEnd(t, w) ==
    LET d == SkipWhile(t, w, Digits)
    IN  IF d + 1 <= Len(t) /\ t[d] \in {",", ".", "-"} /\ t[d + 1] \in Digits
        THEN AmountEnd(t, d + 1)
        ELSE d

\* The positions at which €\s*(\d+(?:[,.-]\d+)*) matches.
CurrencyStarts(rest) ==
    {s \in 1..Len(rest) :
        /\ rest[s] = "€"
        /\ SkipWhile(rest, s + 1, Whitespace) <= Len(rest)
        /\ rest[SkipWhile(rest, s + 1, Whitespace)] \in Digits}

\* price: group 1 of the first match, as it stands; "" without a match
product_price(rest) ==
    LET starts == CurrencyStarts(rest)
    IN  IF starts = {} THEN <<>>
        ELSE LET s == CHOOSE x \in starts : \A y \in starts : x <= y
                 w == SkipWhile(rest, s + 1, Whitespace)
             IN  SubSeq(rest, w, AmountEnd(rest, w) - 1)

\* The offsets at which hay holds needle.
Occurrences(hay, needle) ==
    {off \in 0..(Len(hay) - Len(needle)) :
        SubSeq(hay, off + 1, off + Len(needle)) = needle}

\* rest_text.split(sizes)[0]
BeforeFirst(rest, sizes) ==
    LET offs == Occurrences(rest, sizes)
    IN  IF offs = {} THEN rest
        ELSE SubSeq(rest, 1, CHOOSE off \in offs : \A o \in offs : off <= o)

\* description: rest_text, or what precedes sizes in it, whitespace folded
product_description(rest, sizes) ==
    Strip(SubWhitespaceRuns(
        IF sizes # <<>> THEN Strip(BeforeFirst(rest, sizes)) ELSE rest))

\* A parser that gives a chunk up when its size list or its price is
\* missing.
parse_product_text_AllOrNothing(chunk, page) ==
    LET rest == rest_text(chunk)
        sizes == product_sizes(rest)
    IN  IF "|" \notin Chars(chunk) \/ sizes = <<>> \/ product_price(rest) = <<>>
        THEN None
        ELSE [page |-> page,
              id |-> product_id(chunk),
              name |-> product_name(rest),
              description |-> product_description(rest, sizes),
              sizes |-> sizes,
              price |-> product_price(rest),
              full_text |-> SubSeq(chunk, 1, Min(Len(chunk), FullTextLength))]

\* A parser that makes a record of a chunk without '|' as well.
parse_product_text_NeverNone(chunk, page) ==
    LET rest == rest_text(chunk)
        sizes == product_sizes(rest)
    IN  [page |-> page,
         id |-> product_id(chunk),
         name |-> product_name(rest),
         description |-> product_description(rest, sizes),
         sizes |-> sizes,
         price |-> product_price(rest),
         full_text |-> SubSeq(chunk, 1, Min(Len(chunk), FullTextLength))]

\* parse_product_text(text_chunk, page_num)
parse_product_text(chunk, page) ==
    LET rest == rest_text(chunk)
        sizes == product_sizes(rest)
    IN  IF "|" \notin Chars(chunk) THEN None
        ELSE [page |-> page,
              id |-> product_id(chunk),
              name |-> product_name(rest),
              description |-> product_description(rest, sizes),
              sizes |-> sizes,
              price |-> product_price(rest),
              full_text |-> SubSeq(chunk, 1, Min(Len(chunk), FullTextLength))]

\* U+2013, the dash between the sizes of the catalogue, as one character.
EnDash == "\\u2013"

\* '16.1426 | Cotton Shirt, 180g/m² XS – S – M – L 19,99€'
CottonShirtChunk ==
    <<"1", "6", ".", "1", "4", "2", "6", " ", "|", " ",
      "C", "o", "t", "t", "o", "n", " ", "S", "h", "i", "r", "t", ",", " ",
      "1", "8", "0", "g", "/", "m", "²", " ",
      "X", "S", " ", EnDash, " ", "S", " ", EnDash, " ", "M", " ", EnDash, " ", "L", " ",
      "1", "9", ",", "9", "9", "€">>

\* The text segments the pages of the modelled catalogues are made of.
\* '1.2|Tee, €19,99 €3'
TeeChunk ==
    <<"1", ".", "2", "|", "T", "e", "e", ",", " ", "€", "1", "9", ",", "9", "9", " ",
      "€", "3">>

\* '3.4 |'
BareIdChunk == <<"3", ".", "4", " ", "|">>

\* '5.6|Cap 5g/m² S - M 7 €'
CapChunk ==
    <<"5", ".", "6", "|", "C", "a", "p", " ", "5", "g", "/", "m", "²", " ",
      "S", " ", "-", " ", "M", " ", "7", " ", "€">>

\* '7.8|Hat9g/m², x'
HatChunk ==
    <<"7", ".", "8", "|", "H", "a", "t", "9", "g", "/", "m", "²", ",", " ", "x">>

\* '9.9 Bag'
BagLine == <<"9", ".", "9", " ", "B", "a", "g">>

\* The text segments the pages of the modelled catalogues are made of.
InfoSegments == {CottonShirtChunk, TeeChunk, BareIdChunk, CapChunk, HatChunk}

InfoDocs == {SplitPages(items, <<>>) :
                items \in SeqsUpTo(InfoSegments \cup {PageBreak}, MaxInfoItems)}

\* The catalogues read with a pattern that leaves the '|' out.
IdOnlyDocs == {SplitPages(items, <<>>) :
                  items \in SeqsUpTo({BagLine, TeeChunk, PageBreak}, MaxInfoItems)}

\* fitz.open and os.makedirs have returned; extracted_products = [],
\* total_found = 0.
InitInfo ==
    /\ IdleWeb
    /\ pc = "matches"
    /\ \/ doc \in InfoDocs /\ pattern = DefaultPattern
       \/ doc \in IdOnlyDocs /\ pattern = IdOnlyPattern
    /\ doc_open = TRUE
    /\ page_num = 0
    /\ match_idx = 0
    /\ extracted_products = <<>>
    /\ page_products = 0
    /\ total_found = 0
    /\ csvfile = OutputFile("product_data.csv")
    /\ reported_total = -1
    /\ IdlePrices
    /\ IdleImages
    /\ IdleLookup

\* text_content = page.get_text()
text_content == doc[page_num + 1]

\* The match starts re.finditer yields for the current page.
page_matches == PatternFindIter(pattern, text_content, 1)

\* One iteration of `for match in matches': cut the chunk, parse it, and
\* keep the record unless it is None.
ParseMatch ==
    /\ pc = "matches"
    /\ UNCHANGED webVars
    /\ page_num < Len(doc)
    /\ match_idx < Len(page_matches)
    /\ LET product == parse_product_text(
                          text_chunk(text_content, page_matches[match_idx + 1]),
                          page_num + 1)
       IN  IF product # None
           THEN /\ extracted_products' = Append(extracted_products, product)
                /\ page_products' = page_products + 1
                /\ total_found' = total_found + 1
           ELSE UNCHANGED <<extracted_products, page_products, total_found>>
    /\ match_idx' = match_idx + 1
    /\ UNCHANGED <<pc, pattern, doc, doc_open, page_num, csvfile, reported_total,
                   pricesVars, imagesVars, lookupVars>>

\* The matches of the page are exhausted: report the page and go to the
\* next one, whose body starts with page_products = 0.
EndTextPage ==
    /\ pc = "matches"
    /\ UNCHANGED webVars
    /\ page_num < Len(doc)
    /\ match_idx = Len(page_matches)
    /\ page_num' = page_num + 1
    /\ match_idx' = 0
    /\ page_products' = IF page_num + 1 < Len(doc) THEN 0 ELSE page_products
    /\ UNCHANGED <<pc, pattern, doc, doc_open, extracted_products, total_found,
                   csvfile, reported_total, pricesVars, imagesVars, lookupVars>>

\* The page loop is exhausted: print the total; write product_data.csv if
\* any record was collected.
SaveProductCsv ==
    /\ pc = "matches"
    /\ UNCHANGED webVars
    /\ page_num = Len(doc)
    /\ reported_total' = total_found
    /\ csvfile' = IF extracted_products # <<>>
                  THEN [csvfile EXCEPT !.written = TRUE, !.rows = extracted_products]
                  ELSE csvfile
    /\ pc' = "close_doc"
    /\ UNCHANGED <<doc, doc_open, page_num, infoVars, pricesVars, imagesVars,
                   lookupVars>>

\* doc.close()
CloseProductDoc ==
    /\ pc = "close_doc"
    /\ UNCHANGED webVars
    /\ doc_open' = FALSE
    /\ pc' = "done"
    /\ UNCHANGED <<doc, page_num, csvfile, reported_total, infoVars, pricesVars,
                   imagesVars, lookupVars>>

NextInfo == ParseMatch \/ EndTextPage \/ SaveProductCsv \/ CloseProductDoc

SpecInfo == InitInfo /\ [][NextInfo]_vars

(***************************************************************************)
(* Properties of extract_product_info.py                                   *)
(***************************************************************************)

\* The records parsed from a chunk that is exactly c.
RecordsOf(c) == {i \in 1..Len(extracted_products) : extracted_products[i].full_text = c}

\* hay holds needle somewhere.
Holds(hay, needle) == Occurrences(hay, needle) # {}

\* C12: end-to-end scenario.  A record parsed from the chunk
\* '16.1426 | Cotton Shirt, 180g/m² XS – S – M – L 19,99€' has the name
\* 'Cotton Shirt', the price '19.99' and a non-empty size list that holds
\* XS, S, M and L.
C12_CottonShirtScenario ==
    \A i \in RecordsOf(CottonShirtChunk) :
        LET r == extracted_products[i]
        IN  /\ r.name = <<"C", "o", "t", "t", "o", "n", " ", "S", "h", "i", "r", "t">>
            /\ r.price = Amount19Dot
            /\ r.sizes # <<>>
            /\ \A size \in {<<"X", "S">>, <<"S">>, <<"M">>, <<"L">>} : Holds(r.sizes, size)

\* C13: validity invariant.  Every record in the output sequence has a
\* non-empty identifier and a non-empty name; its price may be empty.
C13_RecordsAreValid ==
    \A i \in 1..Len(extracted_products) :
        /\ extracted_products[i].id # <<>>
        /\ extracted_products[i].name # <<>>

\* The chunk a record was parsed from: full_text, which is the whole chunk
\* as long as the chunk has at most FullTextLength characters.
ChunkOf(r) == r.full_text

\* The text of a chunk after its first '|', trimmed.
AfterBar(c) ==
    LET bar == CHOOSE i \in 1..Len(c) : c[i] = "|" /\ \A j \in 1..(i - 1) : c[j] # "|"
    IN  Strip(SubSeq(c, bar + 1, Len(c)))

\* t[a..b] is a non-empty run of characters of S.
IsRun(t, a, b, S) == a <= b /\ \A i \in a..b : t[i] \in S

\* Digits and then 'g/m²' start at d.
DigitsThenUnit(t, d) ==
    /\ t[d] \in Digits
    /\ \E e \in d..(Len(t) - 4) :
           IsRun(t, d, e, Digits) /\ SubSeq(t, e + 1, e + 4) = <<"g", "/", "m", "²">>

\* A weight token, digits followed by 'g/m²', starts at k.
BareWeightAt(t, k) == DigitsThenUnit(t, k) /\ (k = 1 \/ t[k - 1] \notin Digits)

\* Whitespace and then a weight token start at k.
SpacedWeightAt(t, k) ==
    /\ t[k] \in Whitespace
    /\ \E d \in (k + 1)..Len(t) : IsRun(t, k, d - 1, Whitespace) /\ DigitsThenUnit(t, d)

\* The trimmed text of rest before position k.
Before(rest, k) == Strip(SubSeq(rest, 1, k - 1))

C15_DescriptionBetweenNameAndSizes ==
    \A i \in 1..Len(extracted_products) :
        LET r == extracted_products[i]
            rest == AfterBar(ChunkOf(r))
        IN  IF r.sizes = <<>>
            THEN r.description = <<>>
            ELSE \E a \in 0..Len(rest) : \E b \in Occurrences(rest, r.sizes) :
                     /\ a <= b
                     /\ Before(rest, a + 1) = r.name
                     /\ r.description = Strip(SubWhitespaceRuns(SubSeq(rest, a + 1, b)))

\* The first currency amount of rest ('€', whitespace, then digits with
\* ',', '.' or '-' between them) with each ',' replaced by '.'; "" when
\* rest holds none.
NormalizedFirstAmount(rest) ==
    IF CurrencyStarts(rest) = {} THEN <<>>
    ELSE LET s == CHOOSE x \in CurrencyStarts(rest) : \A y \in CurrencyStarts(rest) : x <= y
             w == SkipWhile(rest, s + 1, Whitespace)
         IN  ReplaceChar(SubSeq(rest, w, AmountEnd(rest, w) - 1), ",", ".")

\* C16: price rule.  The price of a record is the first currency amount of
\* its chunk with ',' replaced by '.', so that no stored price holds a ','.
C16_PriceNormalized ==
    \A i \in 1..Len(extracted_products) :
        /\ extracted_products[i].price =
               NormalizedFirstAmount(AfterBar(ChunkOf(extracted_products[i])))
        /\ "," \notin Chars(extracted_products[i].price)

\* The chunks of page p, in match order, each with its page number.
PageChunks(p) ==
    LET m == PatternFindIter(pattern, doc[p], 1)
    IN  [j \in 1..Len(m) |-> [page |-> p, chunk |-> text_chunk(doc[p], m[j])]]

\* The chunks of the pages 1..p.
RECURSIVE ChunksUpTo(_)
ChunksUpTo(p) == IF p = 0 THEN <<>> ELSE ChunksUpTo(p - 1) \o PageChunks(p)

\* The chunks the match loop has handled so far.
ChunksHandled ==
    IF page_num < Len(doc)
    THEN ChunksUpTo(page_num) \o SubSeq(PageChunks(page_num + 1), 1, match_idx)
    ELSE ChunksUpTo(page_num)

HasBar(c) == \E i \in 1..Len(c) : c[i] = "|"

\* rest holds a currency amount: '€', whitespace or none, a digit.
HasAmount(rest) ==
    \E s \in 1..Len(rest) : \E w \in (s + 1)..Len(rest) :
        /\ rest[s] = "€"
        /\ \A j \in (s + 1)..(w - 1) : rest[j] \in Whitespace
        /\ rest[w] \in Digits

\* rest holds a letter a size token could start or end with.
HasSizeLetter(rest) == \E s \in 1..Len(rest) : rest[s] \in {"S", "M", "L"}

\* C17: partial-record policy.  Every handled chunk that holds a '|' has
\* its record, in order; a record with a name has an identifier, has the
\* empty string as its size list when the chunk holds no size letter, and
\* has the empty string as its price exactly when the chunk holds no
\* currency amount.
C17_PartialRecords ==
    LET withBar == SelectSeq(ChunksHandled, LAMBDA h : HasBar(h.chunk))
    IN  /\ Len(extracted_products) = Len(withBar)
        /\ \A i \in 1..Len(withBar) :
               LET r == extracted_products[i]
                   rest == AfterBar(withBar[i].chunk)
               IN  /\ r.page = withBar[i].page
                   /\ r.full_text = withBar[i].chunk
                   /\ r.name # <<>> =>
                          /\ r.id # <<>>
                          /\ ~HasSizeLetter(rest) => r.sizes = <<>>
                          /\ r.price = <<>> <=> ~HasAmount(rest)

\* C17 witness: the records of two chunks, each with its identifier and
\* name: one with a price and no size list, one with a size list and no
\* price.
C17_Witness ==
    /\ \E i \in RecordsOf(TeeChunk) :
           LET r == extracted_products[i]
           IN  r.id # <<>> /\ r.name # <<>> /\ r.sizes = <<>> /\ r.price # <<>>
    /\ \E i \in RecordsOf(CapChunk) :
           LET r == extracted_products[i]
           IN  r.id # <<>> /\ r.name # <<>> /\ r.sizes # <<>> /\ r.price = <<>>

\* The page the page counter of the match loop belongs to.
CountedPage == IF page_num < Len(doc) THEN page_num + 1 ELSE page_num

\* C18: malformed chunks.  A chunk without '|' parses to None; the records
\* are those of the handled chunks that hold a '|', one each and nothing
\* more, and total_found and page_products count them; the run ends only
\* after every page has been handled.
C18_NullChunksSkipped ==
    LET withBar == SelectSeq(ChunksHandled, LAMBDA h : HasBar(h.chunk))
    IN  /\ \A i \in 1..Len(ChunksHandled) :
               ~HasBar(ChunksHandled[i].chunk) =>
                   parse_product_text(ChunksHandled[i].chunk, ChunksHandled[i].page) = None
        /\ [i \in 1..Len(extracted_products) |->
                [page |-> extracted_products[i].page,
                 chunk |-> ChunkOf(extracted_products[i])]] = withBar
        /\ total_found = Len(withBar)
        /\ page_products = Len(SelectSeq(withBar, LAMBDA h : h.page = CountedPage))
        /\ pc \in {"close_doc", "done"} => page_num = Len(doc)

\* C18 witness: a finished run in which a chunk without '|' was handled
\* and skipped, and a chunk of the next page, handled after it, has its
\* record.
C18_Witness ==
    /\ pc = "done"
    /\ \E i \in 1..Len(ChunksHandled) : \E j \in (i + 1)..Len(ChunksHandled) :
           /\ ~HasBar(ChunksHandled[i].chunk)
           /\ HasBar(ChunksHandled[j].chunk)
           /\ ChunksHandled[j].page = ChunksHandled[i].page + 1
           /\ RecordsOf(ChunksHandled[j].chunk) # {}
           /\ RecordsOf(ChunksHandled[i].chunk) = {}
    /\ total_found = Len(extracted_products)
    /\ total_found < Len(ChunksHandled)

(***************************************************************************)
(* The three scripts that read a PDF, as runs of one program               *)
(***************************************************************************)

\* The runs are over catalogues of at most MaxRunItems items.
MaxRunItems == 2

RunPriceDocs == {SplitPages(items, <<>>) :
                    items \in SeqsUpTo(PriceSegments \cup {PageBreak}, MaxRunItems)}

RunImageDocs == {ImagePages(items, EmptyPage) : items \in SeqsUpTo(ImageItems, MaxRunItems)}

RunInfoDocs == {SplitPages(items, <<>>) :
                   items \in SeqsUpTo(InfoSegments \cup {PageBreak}, MaxRunItems)}

\* One of the three scripts has opened its document.
InitRuns ==
    /\ IdleWeb
    /\ doc_open = TRUE
    /\ page_num = 0
    /\ reported_total = -1
    /\ IdlePrices
    /\ IdleLookup
    /\ img_index = 0
    /\ matching_text_found = FALSE
    /\ extracted_data = <<>>
    /\ page_extracted = 0
    /\ total_extracted = 0
    /\ match_idx = 0
    /\ extracted_products = <<>>
    /\ page_products = 0
    /\ total_found = 0
    /\ \/ /\ pc = "extract"
          /\ doc \in RunPriceDocs
          /\ csvfile = OutputFile("product_prices_accurate.csv")
          /\ min_size = 0
          /\ pattern = ""
       \/ /\ pc = "page"
          /\ doc \in RunImageDocs
          /\ csvfile = OutputFile("extracted_images.csv")
          /\ min_size \in MinSizes
          /\ pattern = ""
       \/ /\ pc = "matches"
          /\ doc \in RunInfoDocs
          /\ csvfile = OutputFile("product_data.csv")
          /\ min_size = 0
          /\ pattern = DefaultPattern

NextRuns == NextPrices \/ NextImages \/ NextInfo

SpecRuns == InitRuns /\ [][NextRuns]_vars

\* C19: document handle.  No run ends with the document handle open.
C19_HandleClosedAtEnd == pc = "done" => ~doc_open

\* The records of the run, whichever script it is.
RunRecords == cleaned_products \o extracted_data \o extracted_products

\* Some action of NextRuns is enabled: at each position, the guards of the
\* actions of that position cover the values the loop counter has.
RunCanStep ==
    /\ pc \in {"extract", "clean", "page", "images", "close", "matches", "close_doc"}
    /\ pc \in {"extract", "page", "matches"} => page_num <= Len(doc)
    /\ pc = "clean" => product_idx <= Len(products)
    /\ pc = "images" => page_num < Len(doc) /\ img_index <= Len(images)
    /\ pc = "matches" /\ page_num < Len(doc) => match_idx <= Len(page_matches)

\* C20 as stated: a run ends, and at its end it has reported a count and
\* written its output file, whatever the count.
C20_CountAndFileAlways ==
    /\ pc # "done" => RunCanStep
    /\ pc = "done" => reported_total = Len(RunRecords) /\ csvfile.written

\* C20, amended: a run ends, and at its end it has reported the number of
\* its records; extract_prices_position.py has written its output file
\* whatever the count, the other two scripts have written theirs exactly
\* when the count is not zero; a written file holds the records.
C20_CountAlwaysFileIfRecords ==
    /\ pc # "done" => RunCanStep
    /\ pc = "done" =>
           /\ reported_total = Len(RunRecords)
           /\ csvfile.written <=>
                  (csvfile.name = "product_prices_accurate.csv" \/ reported_total > 0)
           /\ csvfile.written => csvfile.rows = RunRecords

\* C20 witness: a finished run of scrape_pdf_images.py over a catalogue
\* with an image on it that reported the count zero and wrote no file.
C20_Witness ==
    /\ pc = "done"
    /\ csvfile.name = "extracted_images.csv"
    /\ \E p \in 1..Len(doc) : doc[p].images # <<>>
    /\ reported_total = 0
    /\ ~csvfile.written

(***************************************************************************)
(* Error handling of the image loop                                        *)
(***************************************************************************)

\* The Pixmap of the image cannot be built, converted to RGB or saved.
PixmapFails(img) == img.pixmap \in {"cmyk_err", "broken", "unsaved"}

\* What the image loop emits for an image when nothing that happened to
\* other images matters: a row if it is placed, has a matching block, a
\* usable Pixmap and the minimum size.
DueRow(img, blocks) ==
    /\ img.rects # <<>>
    /\ \E k \in 1..Len(blocks) : CloseWithPattern(blocks[k], img.rects[1])
    /\ ~PixmapFails(img)
    /\ img.width >= min_size
    /\ img.height >= min_size

\* C21: a failure while decoding, converting or saving one image is caught
\* and costs that image only: every image handled so far, whatever failed
\* before it, has exactly one row if it is due one and none otherwise, and
\* the run reaches its end only after the page loop went through every page.
C21_ItemErrorsStayLocal ==
    /\ \A pk \in Handled :
           LET img == doc[pk[1]].images[pk[2]]
           IN  Len(RowsOf(pk[1], pk[2])) =
                   IF DueRow(img, doc[pk[1]].text_blocks) THEN 1 ELSE 0
    /\ pc \in {"close", "done"} => page_num = Len(doc)

\* C21 witness: the run ended after a page whose first image has a
\* matching block but a failing Pixmap and whose second image was emitted.
C21_Witness ==
    /\ pc = "done"
    /\ Len(doc[1].images) = 2
    /\ PixmapFails(doc[1].images[1])
    /\ \E k \in 1..Len(doc[1].text_blocks) :
           CloseWithPattern(doc[1].text_blocks[k], ImageRect)
    /\ RowsOf(1, 1) = <<>>
    /\ Len(RowsOf(1, 2)) = 1
    /\ csvfile.written

(***************************************************************************)
(* Order and identity of the records of extract_prices_position.py         *)
(***************************************************************************)

\* The positions in product_data of the records the cleaning loop has kept
\* so far.
KeptSoFar == {i \in 1..product_idx : NameIsLongEnough(product_data[i])}

\* C22: output order.  The collected records are ordered by page (1-based,
\* non-decreasing) and, within a page, by the order of their matches in the
\* page's text; the records kept by the filter are, in the same relative
\* order, the records of the collected sequence that pass it, and the file
\* holds them in that order.
C22_OutputOrder ==
    /\ \A i \in 1..Len(product_data) : product_data[i].Page >= 1
    /\ \A i \in 1..(Len(product_data) - 1) :
           product_data[i].Page <= product_data[i + 1].Page
    /\ \A p \in 1..page_num :
           LET idm == id_name_matches(doc[p])
               rows == RowsOfPage(p)
           IN  /\ Len(rows) = Len(idm)
               /\ \A i \in 1..Len(rows) :
                      /\ rows[i].ID = idm[i].id
                      /\ rows[i].Name = Strip(idm[i].name)
                      /\ i < Len(rows) => idm[i].start < idm[i + 1].start
    /\ Len(cleaned_products) = Cardinality(KeptSoFar)
    /\ \A k \in 1..Len(cleaned_products) :
           LET r == product_data[Nth(KeptSoFar, k)]
           IN  cleaned_products[k] = [r EXCEPT !.Name = clean_product_name(r.Name)]
    /\ csvfile.written => csvfile.rows = cleaned_products

\* C22 witness: the file holds two records of one page, of different
\* identifiers, the earlier match first.
C22_Witness ==
    /\ csvfile.written
    /\ Len(csvfile.rows) = 2
    /\ csvfile.rows[1].Page = csvfile.rows[2].Page
    /\ csvfile.rows[1].ID # csvfile.rows[2].ID
    /\ csvfile.rows[1].ID = id_name_matches(doc[csvfile.rows[1].Page])[1].id

\* C23: record immutability.  No step changes a field of a record that is
\* already in the collected sequence: every record of products is, after
\* any step, still in its place with the fields it was constructed with.
C23_RecordsNeverMutated ==
    [][\A i \in 1..Len(products) :
           /\ i <= Len(products')
           /\ products'[i] = products[i]]_vars

\* C24: identifier/name locator.  The captured name ends at the first
\* currency sign, newline or comma after the '|': no name of a collected
\* record holds a currency sign, a newline or a comma.
C24_NameEndsAtSigilNewlineOrComma ==
    \A i \in 1..Len(product_data) :
        Chars(product_data[i].Name) \cap {"€", "\n", ","} = {}

(***************************************************************************)
(* The two block scans of scrape_pdf_images.py                             *)
(***************************************************************************)

\* The block at which the first scan of the page's blocks stops for an
\* image at img_rect (0 if it runs to the end).
FirstScanStop(blocks, img_rect) ==
    LET hits == {k \in 1..Len(blocks) : CloseWithPattern(blocks[k], img_rect)}
    IN  IF hits = {} THEN 0 ELSE CHOOSE k \in hits : \A j \in hits : k <= j

\* C25: the second block scan selects the block that made the first scan
\* succeed.  Every emitted row has a non-empty full_text that holds the
\* pattern, and it is the stripped text of the block the first scan stopped
\* at, which passes the geometric test and has no passing pattern block
\* before it; the image just handled has a row only if the first scan
\* succeeded.
C25_SecondScanAgrees ==
    /\ \A i \in 1..Len(extracted_data) :
           LET r == extracted_data[i]
               blocks == doc[r.page].text_blocks
               rect == doc[r.page].images[r.image_index].rects[1]
               stop == FirstScanStop(blocks, rect)
           IN  /\ r.full_text # <<>>
               /\ PatternSearch(r.full_text)
               /\ stop >= 1
               /\ GeometricallyClose(blocks[stop], rect)
               /\ r.full_text = Strip(blocks[stop][5])
               /\ \A j \in 1..(stop - 1) : ~CloseWithPattern(blocks[j], rect)
    /\ LastHandled /\ RowsOf(page_num + 1, img_index) # <<>> => matching_text_found

\* C25 witness: a row was emitted for an image whose page has a block that
\* passes the geometric test without the pattern ahead of the block that
\* passes both, and the row carries the second one's text.
C25_Witness ==
    /\ LastHandled
    /\ matching_text_found
    /\ Len(text_blocks) = 2
    /\ GeometricallyClose(text_blocks[1], LastImage.rects[1])
    /\ ~PatternSearch(Strip(text_blocks[1][5]))
    /\ Len(RowsOf(page_num + 1, img_index)) = 1
    /\ RowsOf(page_num + 1, img_index)[1].full_text = Strip(text_blocks[2][5])

(***************************************************************************)
(* scraper/test2.py: TextileWorldScraper.scrape_all_pages                  *)
(*                                                                         *)
(* The web site is [pages, beyond]: what the first page numbers answer and *)
(* what every page number after them answers.  An answer is either a       *)
(* failed fetch (get_page returns None) or the titles of the product       *)
(* elements of the page, "" for an element without a title.                *)
(***************************************************************************)

\* Page numbers the site answers one by one, at most.
MaxSitePages == 3

\* The largest max_pages argument of the modelled calls.
MaxPagesArg == 3

\* The last page number a call without max_pages is followed to.
MaxCrawlPage == 6

\* max_consecutive_empty = 3
max_consecutive_empty == 3

FetchError == [ok |-> FALSE]

Fetched(items) == [ok |-> TRUE, items |-> items]

\* The answers of the modelled sites: a failed fetch, a page without
\* product elements, a page whose only element has no title, pages with
\* titled elements.
PageAnswers ==
    {FetchError, Fetched(<<>>), Fetched(<<"">>), Fetched(<<"Tee">>),
     Fetched(<<"Cap", "">>)}

Sites == [pages : SeqsUpTo(PageAnswers, MaxSitePages), beyond : PageAnswers]

\* get_page(page_num): the soup of the page, or the failed fetch.
get_page(n) == IF n >= 1 /\ n <= Len(site.pages) THEN site.pages[n] ELSE site.beyond

\* The page_products of scrape_page: one record per element with a title.
RECURSIVE PageProducts(_, _)
PageProducts(items, n) ==
    IF items = <<>> THEN <<>>
    ELSE IF Head(items) # ""
         THEN <<[title |-> Head(items), page_number |-> n]>> \o PageProducts(Tail(items), n)
         ELSE PageProducts(Tail(items), n)

\* scrape_page(page_num): the records it appends to self.products.
scrape_page(n) ==
    LET soup == get_page(n)
    IN  IF ~soup.ok THEN <<>> ELSE PageProducts(soup.items, n)

\* What scrape_page(page_num) returns.
has_products(n) == scrape_page(n) # <<>>

\* `if max_pages and page_num > max_pages'
PastMaxPages == max_pages # 0 /\ page_num > max_pages

\* scrape_all_pages has been called on a fresh scraper.
InitCrawl ==
    /\ pc = "crawl"
    /\ site \in Sites
    /\ start_page \in 1..3
    /\ max_pages \in 0..MaxPagesArg
    /\ page_num = start_page
    /\ consecutive_empty_pages = 0
    /\ products = <<>>
    /\ requests = <<>>
    /\ doc = <<>>
    /\ doc_open = FALSE
    /\ csvfile = NoFile
    /\ reported_total = -1
    /\ product_data = <<>>
    /\ product_idx = 0
    /\ cleaned_products = <<>>
    /\ IdleImages
    /\ IdleLookup
    /\ IdleInfo
    /\ IdlePaginate
    /\ IdleScroll
    /\ IdleRun

\* Top of the while loop with page_num past a given max_pages: break, log
\* the total.
CrawlBreak ==
    /\ pc = "crawl"
    /\ PastMaxPages
    /\ pc' = "done"
    /\ reported_total' = Len(products)
    /\ UNCHANGED <<doc, doc_open, page_num, product_data, products, product_idx,
                   cleaned_products, csvfile, imagesVars, lookupVars, infoVars, webVars>>

\* A loop body that leaves the counter of empty pages alone after a page
\* with products.
CrawlPage_NoReset ==
    /\ pc = "crawl"
    /\ ~PastMaxPages
    /\ page_num <= MaxCrawlPage
    /\ requests' = Append(requests, page_num)
    /\ products' = products \o scrape_page(page_num)
    /\ IF ~has_products(page_num)
       THEN /\ consecutive_empty_pages' = consecutive_empty_pages + 1
            /\ IF consecutive_empty_pages + 1 >= max_consecutive_empty
               THEN /\ pc' = "done"
                    /\ reported_total' = Len(products')
                    /\ UNCHANGED page_num
               ELSE /\ page_num' = page_num + 1
                    /\ UNCHANGED <<pc, reported_total>>
       ELSE /\ page_num' = page_num + 1
            /\ UNCHANGED <<pc, reported_total, consecutive_empty_pages>>
    /\ UNCHANGED <<doc, doc_open, product_data, product_idx, cleaned_products,
                   csvfile, imagesVars, lookupVars, infoVars, site, start_page,
                   max_pages, paginateVars, scrollVars, runVars>>

\* One pass of the while loop body: scrape the page, count it if it was
\* empty and stop at the third empty page in a row, else go to the next
\* page number.
CrawlPage ==
    /\ pc = "crawl"
    /\ ~PastMaxPages
    /\ page_num <= MaxCrawlPage
    /\ requests' = Append(requests, page_num)
    /\ products' = products \o scrape_page(page_num)
    /\ IF ~has_products(page_num)
       THEN /\ consecutive_empty_pages' = consecutive_empty_pages + 1
            /\ IF consecutive_empty_pages + 1 >= max_consecutive_empty
               THEN /\ pc' = "done"
                    /\ reported_total' = Len(products')
                    /\ UNCHANGED page_num
               ELSE /\ page_num' = page_num + 1
                    /\ UNCHANGED <<pc, reported_total>>
       ELSE /\ consecutive_empty_pages' = 0
            /\ page_num' = page_num + 1
            /\ UNCHANGED <<pc, reported_total>>
    /\ UNCHANGED <<doc, doc_open, product_data, product_idx, cleaned_products,
                   csvfile, imagesVars, lookupVars, infoVars, site, start_page,
                   max_pages, paginateVars, scrollVars, runVars>>

NextCrawl == CrawlBreak \/ CrawlPage

SpecCrawl == InitCrawl /\ [][NextCrawl]_vars

\* The loop has no other statement to wait on than a page fetch, which
\* times out after 10 seconds: a pass that can be made is made.
SpecCrawlFair == SpecCrawl /\ WF_vars(NextCrawl)

(***************************************************************************)
(* Properties of scrape_all_pages                                          *)
(***************************************************************************)

\* Page number n yields no product: its fetch fails or none of its
\* elements has a title.
YieldsNothing(n) ==
    LET answer == get_page(n)
    IN  \/ ~answer.ok
        \/ \A i \in 1..Len(answer.items) : answer.items[i] = ""

\* The requests from the i-th on all yielded nothing.
EmptySince(i) == \A j \in i..Len(requests) : YieldsNothing(requests[j])

\* The number of requests, counted back from the last one, that yielded
\* nothing in a row.
TrailingEmpty ==
    LET runs == {k \in 0..Len(requests) : EmptySince(Len(requests) - k + 1)}
    IN  CHOOSE k \in runs : \A m \in runs : m <= k

\* When and where scrape_all_pages stops.
CrawlStopsWhereItShould ==
    /\ \A i \in 1..Len(requests) : requests[i] = start_page + i - 1
    /\ consecutive_empty_pages = TrailingEmpty
    /\ pc = "crawl" => TrailingEmpty < 3 /\ page_num = start_page + Len(requests)
    /\ pc = "done" => IF TrailingEmpty = 3 THEN page_num = requests[Len(requests)]
                                           ELSE PastMaxPages /\ TrailingEmpty < 3
    /\ max_pages # 0 =>
           /\ \A i \in 1..Len(requests) : requests[i] <= max_pages
           /\ Len(requests) <= Max(0, max_pages - start_page + 1)
    /\ \A i \in 1..Len(products) :
           /\ products[i].title # ""
           /\ ~YieldsNothing(products[i].page_number)
           /\ \E j \in 1..Len(requests) : requests[j] = products[i].page_number
    /\ \A j \in 1..Len(requests) :
           ~YieldsNothing(requests[j]) =>
               \E i \in 1..Len(products) : products[i].page_number = requests[j]

\* C26: scrape_all_pages requests consecutive page numbers from start_page
\* and stops exactly at the third page in a row that yielded no product (a
\* failed fetch counting as such a page, a page with products setting the
\* count back to 0) or when page_num is past a non-zero max_pages; with a
\* non-zero max_pages it requests at most max_pages - start_page + 1 pages
\* and always ends; without one it has ended only after three pages in a
\* row yielded nothing.
C26_CrawlTermination ==
    /\ []CrawlStopsWhereItShould
    /\ [](max_pages = 0 /\ pc = "done" => TrailingEmpty = 3)
    /\ (max_pages # 0) ~> (pc = "done")

\* C26 witness: a call without max_pages ended at page 5: page 1 yielded
\* nothing, page 2 had a product, the fetch of page 3 failed and pages 4
\* and 5 yielded nothing.
C26_Witness ==
    /\ pc = "done"
    /\ max_pages = 0
    /\ requests = <<1, 2, 3, 4, 5>>
    /\ YieldsNothing(1)
    /\ ~YieldsNothing(2)
    /\ ~get_page(3).ok
    /\ consecutive_empty_pages = 3

(***************************************************************************)
(* scraper/paginated_scraper.py: handle_traditional_pagination             *)
(*                                                                         *)
(* A URL is the number of the result page it shows.  The site is           *)
(* [counts, beyond]: how many products the page at each URL lists, and     *)
(* what a request for a page after the listed ones leads to:               *)
(*   "invalid"  an error page at the requested URL                         *)
(*   "empty"    a valid page at the requested URL, without products        *)
(*   "last"     a redirect to the last listed page                         *)
(*   "first"    a redirect to the first page                               *)
(*   "timeout"  driver.get raises and no next button is found              *)
(***************************************************************************)

\* Result pages a short site lists, at most.
MaxListedPages == 3

\* `while page <= 50'
PageLimit == 50

\* target_count=3000
DefaultTargetCount == 3000

BeyondKinds == {"invalid", "empty", "last", "first", "timeout"}

\* The modelled sites: the short ones, and sites of about PageLimit pages
\* of one product each.
PaginatedSites ==
    [counts : SeqsUpTo({0, 1, 2}, MaxListedPages), beyond : BeyondKinds]
    \cup [counts : {[i \in 1..n |-> 1] : n \in {PageLimit - 1, PageLimit, PageLimit + 1}},
          beyond : BeyondKinds]

\* Where the driver is, and what navigate_to_next_page returns, after the
\* request for page n.
navigate_to_next_page(n) ==
    IF n <= Len(site.counts) THEN [url |-> n, ok |-> TRUE]
    ELSE IF site.beyond = "invalid" THEN [url |-> n, ok |-> FALSE]
    ELSE IF site.beyond = "empty" THEN [url |-> n, ok |-> TRUE]
    ELSE IF site.beyond = "last"
         THEN [url |-> IF site.counts = <<>> THEN 1 ELSE Len(site.counts), ok |-> TRUE]
    ELSE IF site.beyond = "first" THEN [url |-> 1, ok |-> TRUE]
    ELSE [url |-> current_url, ok |-> FALSE]

\* extract_products_from_current_page with the driver at url: the products
\* listed there, each with its source_page.
extract_products_from_current_page(url) ==
    [k \in 1..(IF url <= Len(site.counts) THEN site.counts[url] ELSE 0) |->
        [source_page |-> url, name |-> k]]

\* run has loaded the initial page; all_products = [], page = 1,
\* visited_urls = set().
InitPaginate ==
    /\ pc = "paginate"
    /\ site \in PaginatedSites
    /\ target_count \in {1, 3, DefaultTargetCount}
    /\ current_url = 1
    /\ visited_urls = {}
    /\ cur_page = 1
    /\ all_products = <<>>
    /\ page_reads = <<>>
    /\ requests = <<>>
    /\ start_page = 0
    /\ max_pages = 0
    /\ consecutive_empty_pages = 0
    /\ doc = <<>>
    /\ doc_open = FALSE
    /\ page_num = 0
    /\ csvfile = NoFile
    /\ reported_total = -1
    /\ IdlePrices
    /\ IdleImages
    /\ IdleLookup
    /\ IdleInfo
    /\ IdleScroll
    /\ IdleRun

\* `while page <= 50' fails: return all_products.
PaginateLimit ==
    /\ pc = "paginate"
    /\ cur_page > PageLimit
    /\ pc' = "done"
    /\ UNCHANGED <<doc, doc_open, page_num, csvfile, reported_total, pricesVars,
                   imagesVars, lookupVars, infoVars, webVars>>

\* A loop body that tests the target count before it navigates.
PaginatePage_TargetFirst ==
    /\ pc = "paginate"
    /\ cur_page <= PageLimit
    /\ IF current_url \in visited_urls
       THEN /\ pc' = "done"
            /\ UNCHANGED <<paginateVars, requests>>
       ELSE LET found == extract_products_from_current_page(current_url)
                nav == navigate_to_next_page(cur_page + 1)
            IN  /\ visited_urls' = visited_urls \cup {current_url}
                /\ page_reads' = Append(page_reads, current_url)
                /\ all_products' = all_products \o found
                /\ UNCHANGED target_count
                /\ IF Len(found) = 0 \/ Len(all_products') >= target_count
                   THEN /\ pc' = "done"
                        /\ UNCHANGED <<current_url, cur_page, requests>>
                   ELSE /\ requests' = Append(requests, cur_page + 1)
                        /\ current_url' = nav.url
                        /\ IF ~nav.ok
                           THEN pc' = "done" /\ UNCHANGED cur_page
                           ELSE cur_page' = cur_page + 1 /\ UNCHANGED pc
    /\ UNCHANGED <<doc, doc_open, page_num, csvfile, reported_total, pricesVars,
                   imagesVars, lookupVars, infoVars, site, start_page, max_pages,
                   consecutive_empty_pages, scrollVars, runVars>>

\* One pass of the while loop body: stop at a URL seen before; read the
\* page's products (page_products); stop if there are none; navigate to the next page and
\* stop if that fails; count the page; stop if the target is reached.
PaginatePage ==
    /\ pc = "paginate"
    /\ cur_page <= PageLimit
    /\ IF current_url \in visited_urls
       THEN /\ pc' = "done"
            /\ UNCHANGED <<paginateVars, requests>>
       ELSE LET found == extract_products_from_current_page(current_url)
                nav == navigate_to_next_page(cur_page + 1)
            IN  /\ visited_urls' = visited_urls \cup {current_url}
                /\ page_reads' = Append(page_reads, current_url)
                /\ all_products' = all_products \o found
                /\ UNCHANGED target_count
                /\ IF Len(found) = 0
                   THEN /\ pc' = "done"
                        /\ UNCHANGED <<current_url, cur_page, requests>>
                   ELSE /\ requests' = Append(requests, cur_page + 1)
                        /\ current_url' = nav.url
                        /\ IF ~nav.ok
                           THEN pc' = "done" /\ UNCHANGED cur_page
                           ELSE /\ cur_page' = cur_page + 1
                                /\ pc' = IF Len(all_products') >= target_count
                                         THEN "done" ELSE pc
    /\ UNCHANGED <<doc, doc_open, page_num, csvfile, reported_total, pricesVars,
                   imagesVars, lookupVars, infoVars, site, start_page, max_pages,
                   consecutive_empty_pages, scrollVars, runVars>>

NextPaginate == PaginateLimit \/ PaginatePage

SpecPaginate == InitPaginate /\ [][NextPaginate]_vars

(***************************************************************************)
(* Properties of handle_traditional_pagination                             *)
(***************************************************************************)

\* The number of products the site lists at a URL.
ListedAt(url) == IF url >= 1 /\ url <= Len(site.counts) THEN site.counts[url] ELSE 0

\* A request for page n does not lead to a valid page.
NavigationFails(n) == n > Len(site.counts) /\ site.beyond \in {"invalid", "timeout"}

\* The URL read last.
LastRead == page_reads[Len(page_reads)]

\* C27: handle_traditional_pagination reads no URL twice in one call (it
\* stops at a URL it has seen), reads at most 50 pages, stops at the first
\* page without products and at the first navigation that fails, and tests
\* the target count only after it has navigated to the next page.
C27_PaginationStops ==
    /\ \A i, j \in 1..Len(page_reads) : page_reads[i] = page_reads[j] => i = j
    /\ visited_urls = {page_reads[i] : i \in 1..Len(page_reads)}
    /\ \A i, j \in 1..Len(all_products) : all_products[i] = all_products[j] => i = j
    /\ Len(all_products) >= Len(page_reads) - 1
    /\ Len(page_reads) <= 50
    /\ \A i \in 1..(Len(page_reads) - 1) : ListedAt(page_reads[i]) > 0
    /\ (page_reads # <<>> /\ ListedAt(LastRead) = 0) =>
           pc = "done" /\ Len(requests) = Len(page_reads) - 1
    /\ \A i \in 1..Len(requests) :
           /\ requests[i] = i + 1
           /\ NavigationFails(requests[i]) => i = Len(requests) /\ pc = "done"
    /\ (pc = "paginate" /\ page_reads # <<>>) => Len(all_products) < target_count
    /\ (pc = "done" /\ page_reads # <<>> /\ ListedAt(LastRead) > 0) =>
           /\ Len(requests) = Len(page_reads)
           /\ \/ NavigationFails(requests[Len(requests)])
              \/ Len(all_products) >= target_count
              \/ current_url \in visited_urls
              \/ cur_page > 50

\* C27 witness: the target of 3 products was reached with the second page
\* read, and the call ended with the driver on the third page, which it
\* requested and never read.
C27_Witness ==
    /\ pc = "done"
    /\ target_count = 3
    /\ page_reads = <<1, 2>>
    /\ Len(all_products) = 3
    /\ requests = <<2, 3>>
    /\ current_url = 3
    /\ current_url \notin visited_urls

(***************************************************************************)
(* scraper/test.py: infinite_scroll_current_page                           *)
(*                                                                         *)
(* The page is [script, then]: what document.body.scrollHeight and the     *)
(* product count are when read the first time, the second time, ..., and   *)
(* whether, the script played, the page holds its last reading or plays    *)
(* the script again.                                                       *)
(***************************************************************************)

\* Readings a page's script is made of, at most.
MaxScriptLen == 3

\* self.max_scroll_attempts = 30
max_scroll_attempts == 30

\* max_stable_iterations = 5
max_stable_iterations == 5

Readings == [height : {1, 2}, count : {0, 1}]

ScrolledPages ==
    [script : SeqsUpTo(Readings, MaxScriptLen) \ {<<>>}, then : {"hold", "repeat"}]

\* What the k-th reading of the page gives, the one before the loop being
\* the 0-th.
Reading(k) ==
    IF k < Len(site.script) THEN site.script[k + 1]
    ELSE IF site.then = "hold" THEN site.script[Len(site.script)]
    ELSE site.script[(k % Len(site.script)) + 1]

\* initial_count and last_height have been read; stable_iterations = 0.
InitScroll ==
    /\ pc = "scroll"
    /\ site \in ScrolledPages
    /\ scroll_attempt = 0
    /\ last_height = Reading(0).height
    /\ last_product_count = Reading(0).count
    /\ stable_iterations = 0
    /\ reported_total = -1
    /\ start_page = 0
    /\ max_pages = 0
    /\ consecutive_empty_pages = 0
    /\ requests = <<>>
    /\ doc = <<>>
    /\ doc_open = FALSE
    /\ page_num = 0
    /\ csvfile = NoFile
    /\ IdlePrices
    /\ IdleImages
    /\ IdleLookup
    /\ IdleInfo
    /\ IdlePaginate
    /\ IdleRun

\* A loop body whose kept count follows every reading.
ScrollOnce_CountFollows ==
    /\ pc = "scroll"
    /\ scroll_attempt < max_scroll_attempts
    /\ LET new == Reading(scroll_attempt + 1)
           stable == IF new.count > last_product_count \/ new.height > last_height
                     THEN 0 ELSE stable_iterations + 1
       IN  /\ last_product_count' = new.count
           /\ stable_iterations' = stable
           /\ last_height' = new.height
           /\ scroll_attempt' = scroll_attempt + 1
           /\ IF stable >= max_stable_iterations
              THEN /\ pc' = "done"
                   /\ reported_total' = Reading(scroll_attempt + 2).count
              ELSE UNCHANGED <<pc, reported_total>>
    /\ UNCHANGED <<doc, doc_open, page_num, csvfile, pricesVars, imagesVars,
                   lookupVars, infoVars, crawlVars, paginateVars, runVars>>

\* One pass of `for scroll_attempt in range(self.max_scroll_attempts)':
\* scroll, read height and count, reset or advance stable_iterations, keep
\* the height, break at max_stable_iterations (then read the final count).
ScrollOnce ==
    /\ pc = "scroll"
    /\ scroll_attempt < max_scroll_attempts
    /\ LET new == Reading(scroll_attempt + 1)
           stable == IF new.count > last_product_count \/ new.height > last_height
                     THEN 0 ELSE stable_iterations + 1
       IN  /\ last_product_count' = IF new.count > last_product_count
                                    THEN new.count ELSE last_product_count
           /\ stable_iterations' = stable
           /\ last_height' = new.height
           /\ scroll_attempt' = scroll_attempt + 1
           /\ IF stable >= max_stable_iterations
              THEN /\ pc' = "done"
                   /\ reported_total' = Reading(scroll_attempt + 2).count
              ELSE UNCHANGED <<pc, reported_total>>
    /\ UNCHANGED <<doc, doc_open, page_num, csvfile, pricesVars, imagesVars,
                   lookupVars, infoVars, crawlVars, paginateVars, runVars>>

\* The range is exhausted: read the final count, scroll back, return it.
ScrollEnd ==
    /\ pc = "scroll"
    /\ scroll_attempt = max_scroll_attempts
    /\ pc' = "done"
    /\ reported_total' = Reading(scroll_attempt + 1).count
    /\ UNCHANGED <<doc, doc_open, page_num, csvfile, pricesVars, imagesVars,
                   lookupVars, infoVars, webVars>>

NextScroll == ScrollOnce \/ ScrollEnd

SpecScroll == InitScroll /\ [][NextScroll]_vars

(***************************************************************************)
(* Properties of infinite_scroll_current_page                              *)
(***************************************************************************)

\* The largest product count among the readings 0..k.
MaxCountUpTo(k) ==
    LET counts == {Reading(j).count : j \in 0..k}
    IN  CHOOSE c \in counts : \A d \in counts : d <= c

\* The k-th reading (k >= 1) showed growth: a product count above every
\* count read before, or a height above the height read just before.
Grew(k) ==
    \/ Reading(k).count > MaxCountUpTo(k - 1)
    \/ Reading(k).height > Reading(k - 1).height

\* The iterations made so far that showed no growth.
StableIterations == {k \in 1..scroll_attempt : ~Grew(k)}

\* The number of iterations made last that showed no growth in a row.
TrailingStable ==
    LET stable == StableIterations
        grown == {k \in 0..scroll_attempt : k \notin stable}
        last == CHOOSE k \in grown : \A j \in grown : j <= k
    IN  scroll_attempt - last

\* C28: infinite_scroll_current_page makes at most max_scroll_attempts
\* iterations and ends before that exactly when the last 5 iterations in a
\* row saw neither a product count above the running maximum nor a height
\* increase; stable_iterations counts the iterations without growth since
\* the last growth of either kind, and last_product_count is the largest
\* count read so far.
C28_ScrollStops ==
    /\ scroll_attempt <= 30
    /\ stable_iterations = TrailingStable
    /\ last_product_count = MaxCountUpTo(scroll_attempt)
    /\ last_height = Reading(scroll_attempt).height
    /\ pc = "scroll" => TrailingStable < 5
    /\ pc = "done" => TrailingStable = 5 \/ scroll_attempt = 30
    /\ LET stable == StableIterations
       IN  \A k \in 5..scroll_attempt :
               (k - 4)..k \subseteq stable => k = scroll_attempt /\ pc = "done"

\* C28 witness: the loop ended after 7 of its 30 iterations: the first saw
\* the height grow and no new product, the second a count above the
\* maximum, the next five nothing new.
C28_Witness ==
    /\ pc = "done"
    /\ scroll_attempt = 7
    /\ stable_iterations = 5
    /\ Reading(1).height > Reading(0).height
    /\ Reading(1).count <= Reading(0).count
    /\ Reading(2).count > MaxCountUpTo(1)
    /\ last_product_count = Reading(2).count

(***************************************************************************)
(* scraper/test.py: deduplicate_products and                               *)
(* handle_traditional_pagination_with_scroll;                              *)
(* scraper/paginated_scraper.py: deduplicate_products                      *)
(*                                                                         *)
(* A product is [name, url, source_page].  The site is the sequence of its *)
(* result pages, a page being the products the two extraction strategies   *)
(* collect from it once it is fully scrolled, duplicates included.         *)
(***************************************************************************)

\* Products and page breaks a short site is made of, at most.
MaxDedupItems == 4

\* max_pages = 50
PaginationMaxPages == 50

\* re.sub(r'[^\w\s]', '', s)
RECURSIVE SubNonWord(_)
SubNonWord(s) ==
    IF s = <<>> THEN <<>>
    ELSE IF Head(s) \in WordChars \cup Whitespace
         THEN <<Head(s)>> \o SubNonWord(Tail(s))
         ELSE SubNonWord(Tail(s))

\* s.replace(' ', '')
RECURSIVE RemoveSpaces(_)
RemoveSpaces(s) ==
    IF s = <<>> THEN <<>>
    ELSE IF Head(s) = " " THEN RemoveSpaces(Tail(s))
         ELSE <<Head(s)>> \o RemoveSpaces(Tail(s))

\* name_key = re.sub(r'[^\w\s]', '', name.lower()).replace(' ', '')
\* for name = product.get('name', '').strip()
name_key(product) == RemoveSpaces(SubNonWord(Lower(Strip(product.name))))

\* url_key = url.split('?')[0] if url else ''
\* for url = product.get('url', '').strip()
url_key(product) ==
    LET url == Strip(product.url)
    IN  SubSeq(url, 1, SkipUntil(url, 1, {"?"}) - 1)

\* combined_key = f"{name_key}|{url_key}"
combined_key(product) == name_key(product) \o <<"|">> \o url_key(product)

\* The loop of test.py's deduplicate_products over what is left of the
\* list, with the keys seen so far.
RECURSIVE DedupLoop(_, _)
DedupLoop(rest, seen) ==
    IF rest = <<>> THEN <<>>
    ELSE LET product == Head(rest)
         IN  IF Len(name_key(product)) > 3 /\ combined_key(product) \notin seen
             THEN <<product>> \o DedupLoop(Tail(rest), seen \cup {combined_key(product)})
             ELSE DedupLoop(Tail(rest), seen)

\* A deduplication that keeps the names of any length.
deduplicate_products_AnyLength(prods) ==
    LET RECURSIVE Loop(_, _)
        Loop(rest, seen) ==
            IF rest = <<>> THEN <<>>
            ELSE IF combined_key(Head(rest)) \notin seen
                 THEN <<Head(rest)>> \o Loop(Tail(rest), seen \cup {combined_key(Head(rest))})
                 ELSE Loop(Tail(rest), seen)
    IN  Loop(prods, {})

\* test.py: deduplicate_products(products)
deduplicate_products(prods) == DedupLoop(prods, {})

\* The loop of paginated_scraper.py's deduplicate_products.
RECURSIVE DedupByNameLoop(_, _)
DedupByNameLoop(rest, seen) ==
    IF rest = <<>> THEN <<>>
    ELSE LET product == Head(rest)
         IN  IF Len(name_key(product)) > 3 /\ name_key(product) \notin seen
             THEN <<product>> \o DedupByNameLoop(Tail(rest), seen \cup {name_key(product)})
             ELSE DedupByNameLoop(Tail(rest), seen)

\* paginated_scraper.py: deduplicate_products(products)
deduplicate_products_by_name(prods) == DedupByNameLoop(prods, {})

\* "Jack Polo", " jack-polo", "JACK polo!", "Top", "Jack Hemd"
JackPolo == <<"J", "a", "c", "k", " ", "P", "o", "l", "o">>

JackPoloDashed == <<" ", "j", "a", "c", "k", "-", "p", "o", "l", "o">>

JackTop == <<"T", "o", "p">>

JackHemd == <<"J", "a", "c", "k", " ", "H", "e", "m", "d">>

\* "/polo.html", "/polo.html?c=2", "/hemd.html"
PoloUrl == <<"/", "p", "o", "l", "o", ".", "h", "t", "m", "l">>

PoloUrlQuery == PoloUrl \o <<"?", "c", "=", "2">>

HemdUrl == <<"/", "h", "e", "m", "d", ".", "h", "t", "m", "l">>

\* The products the short sites list (source_page is set per page): two
\* with one key, one with their name key and another URL, one of a short name.
ListedProducts ==
    {[name |-> JackPolo, url |-> PoloUrl],
     [name |-> JackPoloDashed, url |-> PoloUrlQuery],
     [name |-> JackPolo, url |-> HemdUrl],
     [name |-> JackTop, url |-> PoloUrl]}

\* The mark between two pages in an item stream of listed products.
NextPageMark == [name |-> <<"\f">>, url |-> <<>>]

\* The pages of an item stream of products and page breaks; a product gets
\* the number of its page as source_page.
RECURSIVE ProductPages(_, _, _)
ProductPages(items, cur, n) ==
    IF items = <<>> THEN <<cur>>
    ELSE IF Head(items) = NextPageMark
         THEN <<cur>> \o ProductPages(Tail(items), <<>>, n + 1)
         ELSE ProductPages(Tail(items),
                           Append(cur, [name |-> Head(items).name,
                                        url |-> Head(items).url,
                                        source_page |-> n]),
                           n)

\* The modelled sites: the short ones, and one of a page more than
\* PaginationMaxPages, each page listing one product.
ProductSites ==
    {ProductPages(items, <<>>, 1) :
        items \in SeqsUpTo(ListedProducts \cup {NextPageMark}, MaxDedupItems)}
    \cup {[n \in 1..(PaginationMaxPages + 1) |->
             <<[name |-> JackHemd, url |-> HemdUrl, source_page |-> n]>>]}

\* run has loaded the initial page; all_products = [], page = 1.
InitScrollPages ==
    /\ pc = "scroll_pages"
    /\ site \in ProductSites
    /\ target_count \in {2, DefaultTargetCount}
    /\ current_url = 1
    /\ cur_page = 1
    /\ all_products = <<>>
    /\ page_reads = <<>>
    /\ visited_urls = {}
    /\ requests = <<>>
    /\ start_page = 0
    /\ max_pages = 0
    /\ consecutive_empty_pages = 0
    /\ doc = <<>>
    /\ doc_open = FALSE
    /\ page_num = 0
    /\ csvfile = NoFile
    /\ reported_total = -1
    /\ IdlePrices
    /\ IdleImages
    /\ IdleLookup
    /\ IdleInfo
    /\ IdleScroll
    /\ IdleRun

\* One pass of `while page <= max_pages': scroll the page to its end,
\* extract its products (deduplicated), extend all_products, stop at the
\* target, click the next-page button (stop if there is none), page += 1.
ScrollPage ==
    /\ pc = "scroll_pages"
    /\ cur_page <= PaginationMaxPages
    /\ page_reads' = Append(page_reads, current_url)
    /\ all_products' = all_products \o deduplicate_products(site[current_url])
    /\ IF Len(all_products') >= target_count
       THEN /\ pc' = "done"
            /\ reported_total' = Len(all_products')
            /\ UNCHANGED <<current_url, cur_page>>
       ELSE IF current_url = Len(site)
            THEN /\ pc' = "done"
                 /\ reported_total' = Len(all_products')
                 /\ UNCHANGED <<current_url, cur_page>>
            ELSE /\ current_url' = current_url + 1
                 /\ cur_page' = cur_page + 1
                 /\ UNCHANGED <<pc, reported_total>>
    /\ UNCHANGED <<doc, doc_open, page_num, csvfile, pricesVars, imagesVars,
                   lookupVars, infoVars, crawlVars, visited_urls, target_count,
                   scrollVars, runVars>>

\* `while page <= max_pages' fails: log the total, return all_products.
ScrollPagesLimit ==
    /\ pc = "scroll_pages"
    /\ cur_page > PaginationMaxPages
    /\ pc' = "done"
    /\ reported_total' = Len(all_products)
    /\ UNCHANGED <<doc, doc_open, page_num, csvfile, pricesVars, imagesVars,
                   lookupVars, infoVars, webVars>>

NextScrollPages == ScrollPage \/ ScrollPagesLimit

SpecScrollPages == InitScrollPages /\ [][NextScrollPages]_vars

\* The products of raw at the indices in I, in raw's order.
RECURSIVE AtIndices(_, _, _)
AtIndices(raw, I, i) ==
    IF i > Len(raw) THEN <<>>
    ELSE (IF i \in I THEN <<raw[i]>> ELSE <<>>) \o AtIndices(raw, I, i + 1)

\* The key of the scroll scraper, as a pair, and the key of the paginated one.
ScrollKey(product) == <<name_key(product), url_key(product)>>

NameOnlyKey(product) == name_key(product)

\* The first occurrences in raw of the keys whose name key is longer than 3.
FirstOccurrences(raw, Key(_)) ==
    {i \in 1..Len(raw) :
        /\ Len(name_key(raw[i])) > 3
        /\ \A j \in 1..(i - 1) : Key(raw[j]) # Key(raw[i])}

\* out is what the claim says a deduplication of raw under Key returns.
IsDeduplicationOf(out, raw, Key(_)) ==
    /\ out = AtIndices(raw, FirstOccurrences(raw, Key), 1)
    /\ \A i, j \in 1..Len(out) : i # j => Key(out[i]) # Key(out[j])
    /\ \A i \in 1..Len(out) : Len(name_key(out[i])) > 3

\* What all_products holds of the page p.
FromPage(p) == SelectSeq(all_products, LAMBDA x : x.source_page = p)

\* C29: deduplicate_products returns the subsequence of its input made of the
\* first occurrence of each normalized key (name key plus query-stripped URL
\* in the scroll scraper, name key alone in the paginated one) whose name key
\* is longer than 3, so no two of its products share a key, and it is
\* idempotent; the scroll scraper applies it to each page's products only,
\* and all_products is the concatenation of the pages' results in the order
\* the pages were read, whatever keys the earlier pages had.
C29_DeduplicatePerPage ==
    /\ \A k \in 1..Len(page_reads) :
          LET p == page_reads[k]
              out == FromPage(p)
              by_name == deduplicate_products_by_name(site[p])
          IN  /\ IsDeduplicationOf(out, site[p], ScrollKey)
              /\ deduplicate_products(out) = out
              /\ IsDeduplicationOf(by_name, site[p], NameOnlyKey)
              /\ deduplicate_products_by_name(by_name) = by_name
    /\ \A i \in 1..Len(all_products) :
          /\ \E k \in 1..Len(page_reads) : page_reads[k] = all_products[i].source_page
          /\ \A j \in 1..(i - 1) :
                all_products[j].source_page <= all_products[i].source_page

\* A page listed the same key twice and lost the second occurrence, while
\* all_products ends with the same key from two different pages.
C29_Witness ==
    /\ pc = "done"
    /\ \E i, j \in 1..Len(all_products) :
          /\ ScrollKey(all_products[i]) = ScrollKey(all_products[j])
          /\ all_products[i].source_page < all_products[j].source_page
    /\ \E k \in 1..Len(page_reads) :
          \E i, j \in 1..Len(site[page_reads[k]]) :
             /\ i < j
             /\ Len(name_key(site[page_reads[k]][i])) > 3
             /\ ScrollKey(site[page_reads[k]][i]) = ScrollKey(site[page_reads[k]][j])
             /\ Len(FromPage(page_reads[k])) < Len(site[page_reads[k]])

(***************************************************************************)
(* scraper/test.py, scraper/paginated_scraper.py: run, setup_chrome_driver *)
(* and save_results                                                        *)
(*                                                                         *)
(* driver is self.driver ("none" for None, "open" for a live session,      *)
(* "quit" once quit() was called on it); fault names the first statement   *)
(* that raised, "none" while none did; returned is the value of the return *)
(* statement run last, "none" before any.  site is the list                *)
(* smart_scraping_approach returns when it does not raise.                 *)
(***************************************************************************)

\* Products a modelled scrape returns, at most.
MaxRunProducts == 2

ScrapedProducts ==
    {[name |-> JackPolo, url |-> PoloUrl, source_page |-> 1],
     [name |-> JackHemd, url |-> HemdUrl, source_page |-> 1]}

\* scraper = ImprovedTextileWorldScraper(headless, target_count); self.driver = None
InitScraperRun ==
    /\ pc = "run_setup"
    /\ site \in SeqsUpTo(ScrapedProducts, MaxRunProducts)
    /\ target_count \in {0, 1, DefaultTargetCount}
    /\ driver = "none"
    /\ fault = "none"
    /\ returned = "none"
    /\ all_products = <<>>
    /\ current_url = 0
    /\ cur_page = 0
    /\ page_reads = <<>>
    /\ visited_urls = {}
    /\ requests = <<>>
    /\ start_page = 0
    /\ max_pages = 0
    /\ consecutive_empty_pages = 0
    /\ doc = <<>>
    /\ doc_open = FALSE
    /\ page_num = 0
    /\ csvfile = NoFile
    /\ reported_total = -1
    /\ IdlePrices
    /\ IdleImages
    /\ IdleLookup
    /\ IdleInfo
    /\ IdleScroll

\* if not self.setup_chrome_driver(): return False
\* webdriver.Chrome may raise before self.driver is assigned, and
\* execute_script or implicitly_wait after it.
SetupDriver ==
    /\ pc = "run_setup"
    /\ \E outcome \in {"ok", "chrome", "setup_script"} :
          IF outcome = "ok"
          THEN /\ driver' = "open"
               /\ pc' = "run_load"
               /\ UNCHANGED <<fault, returned>>
          ELSE /\ driver' = IF outcome = "chrome" THEN "none" ELSE "open"
               /\ fault' = outcome
               /\ returned' = "False"
               /\ pc' = "done"
    /\ UNCHANGED <<doc, doc_open, page_num, csvfile, reported_total, pricesVars,
                   imagesVars, lookupVars, infoVars, crawlVars, paginateVars,
                   scrollVars>>

\* self.driver.get(url); an exception goes to `except Exception', which
\* returns False.
LoadPage ==
    /\ pc = "run_load"
    /\ \E raises \in BOOLEAN :
          IF raises
          THEN /\ fault' = "load"
               /\ returned' = "False"
               /\ pc' = "run_finally"
          ELSE /\ pc' = "run_scrape"
               /\ UNCHANGED <<fault, returned>>
    /\ UNCHANGED <<doc, doc_open, page_num, csvfile, reported_total, pricesVars,
                   imagesVars, lookupVars, infoVars, crawlVars, paginateVars,
                   scrollVars, driver>>

\* products = self.smart_scraping_approach(); `if products:' ... else return False
Scrape ==
    /\ pc = "run_scrape"
    /\ \E raises \in BOOLEAN :
          IF raises
          THEN /\ fault' = "scrape"
               /\ returned' = "False"
               /\ pc' = "run_finally"
               /\ UNCHANGED all_products
          ELSE /\ all_products' = site
               /\ UNCHANGED fault
               /\ IF site # <<>>
                  THEN /\ pc' = "run_save"
                       /\ UNCHANGED returned
                  ELSE /\ returned' = "False"
                       /\ pc' = "run_finally"
    /\ UNCHANGED <<doc, doc_open, page_num, csvfile, reported_total, pricesVars,
                   imagesVars, lookupVars, infoVars, crawlVars, current_url,
                   visited_urls, cur_page, target_count, page_reads, scrollVars,
                   driver>>

\* filename = self.save_results(products): the CSV file, then the JSON file;
\* opening or writing either may raise.
SaveResults ==
    /\ pc = "run_save"
    /\ \E outcome \in {"ok", "save_csv", "save_json"} :
          /\ csvfile' = IF outcome = "save_csv" THEN csvfile
                        ELSE [written |-> TRUE, rows |-> all_products]
          /\ IF outcome = "ok"
             THEN /\ pc' = "run_summary"
                  /\ UNCHANGED <<fault, returned>>
             ELSE /\ fault' = outcome
                  /\ returned' = "False"
                  /\ pc' = "run_finally"
    /\ UNCHANGED <<doc, doc_open, page_num, reported_total, pricesVars,
                   imagesVars, lookupVars, infoVars, crawlVars, paginateVars,
                   scrollVars, driver>>

\* The summary and the preview, then return True.  The percentage divides by
\* self.target_count, and the preview slices and formats the products' fields.
Summary ==
    /\ pc = "run_summary"
    /\ \E raises \in BOOLEAN :
          IF target_count # 0 /\ ~raises
          THEN /\ returned' = "True"
               /\ UNCHANGED fault
          ELSE /\ fault' = "summary"
               /\ returned' = "False"
    /\ reported_total' = Len(all_products)
    /\ pc' = "run_finally"
    /\ UNCHANGED <<doc, doc_open, page_num, csvfile, pricesVars, imagesVars,
                   lookupVars, infoVars, crawlVars, paginateVars, scrollVars,
                   driver>>

\* A run that quits the driver at the end of the try block only.
QuitDriver_OnSuccessOnly ==
    /\ pc = "run_finally"
    /\ driver' = IF returned = "True" THEN "quit" ELSE driver
    /\ pc' = "done"
    /\ UNCHANGED <<doc, doc_open, page_num, csvfile, reported_total, pricesVars,
                   imagesVars, lookupVars, infoVars, crawlVars, paginateVars,
                   scrollVars, fault, returned>>

\* finally: if self.driver: self.driver.quit()
QuitDriver ==
    /\ pc = "run_finally"
    /\ driver' = IF driver # "none" THEN "quit" ELSE driver
    /\ pc' = "done"
    /\ UNCHANGED <<doc, doc_open, page_num, csvfile, reported_total, pricesVars,
                   imagesVars, lookupVars, infoVars, crawlVars, paginateVars,
                   scrollVars, fault, returned>>

NextScraperRun ==
    SetupDriver \/ LoadPage \/ Scrape \/ SaveResults \/ Summary \/ QuitDriver

SpecScraperRun == InitScraperRun /\ [][NextScraperRun]_vars

\* setup_chrome_driver returned True in this run.
SetupSucceeded == pc # "run_setup" /\ fault \notin {"chrome", "setup_script"}

\* C30: when run has ended after a successful setup_chrome_driver, quit() was
\* called on the driver, whether products were found, none were found, or
\* loading, scraping, saving or the summary raised; until then the session
\* is open; and run returns True only if the scrape returned at least one
\* product, save_results wrote them and nothing raised.
C30_DriverQuitOnEveryPath ==
    /\ pc = "done" /\ SetupSucceeded => driver = "quit"
    /\ pc = "done" => returned \in {"True", "False"}
    /\ pc \notin {"run_setup", "done"} => driver = "open"
    /\ returned = "True" =>
          /\ all_products # <<>>
          /\ csvfile = [written |-> TRUE, rows |-> all_products]
          /\ fault = "none"

\* A run whose save raised after the CSV file was written: it has returned
\* False and the driver is quit.
C30_Witness ==
    /\ pc = "done"
    /\ fault = "save_json"
    /\ all_products # <<>>
    /\ csvfile.written
    /\ returned = "False"
    /\ driver = "quit"

====
